---- MODULE Spec2Model ----
(***************************************************************************)
(* Reactivity engine and update scheduler of the repository: reactive      *)
(* properties (core/observer/index.js), array mutators (observer/array.js),*)
(* Watcher (core/observer/watcher.js), the scheduler                       *)
(* (core/observer/scheduler.js), nextTick (core/util/next-tick.js) and the *)
(* computed getter (core/instance/state.js).                               *)
(*                                                                         *)
(* JavaScript runs to completion, so every handler is one atomic action.   *)
(* The operators below transform a record s that holds the whole program   *)
(* state; an action commits the record its handler returns.  The loops of  *)
(* flushCallbacks and flushSchedulerQueue are unrolled with a program      *)
(* counter, one iteration per step; nothing else can run between two       *)
(* iterations, as in the code.                                             *)
(***************************************************************************)
EXTENDS Integers, Sequences, FiniteSets, TLC

MAX_UPDATE_COUNT == 100

\* Bounds of the model
MaxLen == 3
MaxTickUpdates == 2

(***************************************************************************)
(* JavaScript values                                                       *)
(***************************************************************************)
Num(n) == [k |-> "num", n |-> n]
NaNV == [k |-> "nan", n |-> 0]
Obj(n) == [k |-> "obj", n |-> n]
Undef == [k |-> "undef", n |-> 0]

\* object 0 is the array held by data.list, objects 1 and 2 are two distinct
\* plain objects with equal contents ({})
ARR == Obj(0)
ObjNums == {0, 1, 2}
NoOb == 0 - 1

isObject(v) == v.k = "obj"
IsArray(v) == v = ARR

\* x === y
StrictEq(x, y) == x = y /\ x.k # "nan"

Props == {"a", "b", "c", "list"}
DepOfOb(n) == CASE n = 0 -> "obA" [] n = 1 -> "ob1" [] OTHER -> "ob2"
Deps == Props \cup {"obA", "ob1", "ob2"}

Last(q) == q[Len(q)]
Front(q) == SubSeq(q, 1, Len(q) - 1)
Range(q) == {q[i] : i \in 1..Len(q)}

RECURSIVE RemoveFirst(_, _)
RemoveFirst(q, x) ==
  IF q = <<>> THEN <<>>
  ELSE IF Head(q) = x THEN Tail(q)
  ELSE <<Head(q)>> \o RemoveFirst(Tail(q), x)

RECURSIVE InsertSorted(_, _)
InsertSorted(q, x) ==
  IF q = <<>> THEN <<x>>
  ELSE IF x < Head(q) THEN <<x>> \o q
  ELSE <<Head(q)>> \o InsertSorted(Tail(q), x)

\* a flush that does not sort its queue
SortById_Unsorted(q) == q

\* queue.sort((a, b) => a.id - b.id), stable
RECURSIVE SortById(_)
SortById(q) ==
  IF q = <<>> THEN <<>>
  ELSE InsertSorted(SortById(Front(q)), Last(q))

(***************************************************************************)
(* Dep: subscriber list, active target and target stack                    *)
(***************************************************************************)
addSub(s, d, w) == [s EXCEPT !.subs[d] = Append(@, w)]

removeSub(s, d, w) == [s EXCEPT !.subs[d] = RemoveFirst(@, w)]

\* Dep.target; 0 stands for undefined
DepTarget(s) == IF s.targetStack = <<>> THEN 0 ELSE Last(s.targetStack)

pushTarget(s, w) == [s EXCEPT !.targetStack = Append(@, w)]

popTarget(s) == [s EXCEPT !.targetStack = Front(@)]

(***************************************************************************)
(* Watcher: dependency collection                                          *)
(***************************************************************************)
\* addDep that records the Dep but never subscribes to it
addDep_NoSub(s, w, d) ==
  IF d \notin s.ws[w].newDepIds
  THEN [s EXCEPT !.ws[w].newDepIds = @ \cup {d}, !.ws[w].newDeps = Append(@, d)]
  ELSE s

addDep(s, w, d) ==
  IF d \notin s.ws[w].newDepIds
  THEN LET s1 == [s EXCEPT !.ws[w].newDepIds = @ \cup {d},
                           !.ws[w].newDeps = Append(@, d)]
       IN IF d \notin s.ws[w].depIds THEN addSub(s1, d, w) ELSE s1
  ELSE s

\* Dep.depend
depend(s, d) == IF DepTarget(s) # 0 THEN addDep(s, DepTarget(s), d) ELSE s

RECURSIVE cleanupLoop(_, _, _)
cleanupLoop(s, w, i) ==
  IF i = 0 THEN s
  ELSE LET dep == s.ws[w].deps[i]
           s1 == IF dep \notin s.ws[w].newDepIds THEN removeSub(s, dep, w) ELSE s
       IN cleanupLoop(s1, w, i - 1)

\* the second half of cleanupDeps: the containers are swapped
swapDeps(s, w) ==
  [s EXCEPT !.ws[w].depIds = s.ws[w].newDepIds,
            !.ws[w].newDepIds = {},
            !.ws[w].deps = s.ws[w].newDeps,
            !.ws[w].newDeps = <<>>]

\* cleanupDeps without the unsubscribing
cleanupDeps_NoPrune(s, w) == swapDeps(s, w)

cleanupDeps(s, w) == swapDeps(cleanupLoop(s, w, Len(s.ws[w].deps)), w)

\* Watcher.teardown: let i = this.deps.length; while (i--) this.deps[i].removeSub(this)
RECURSIVE teardownLoop(_, _, _)
teardownLoop(s, w, i) ==
  IF i = 0 THEN s ELSE teardownLoop(removeSub(s, s.ws[w].deps[i], w), w, i - 1)

\* Watcher.teardown
teardown(s, w) ==
  IF s.ws[w].active
  THEN [teardownLoop(s, w, Len(s.ws[w].deps)) EXCEPT !.ws[w].active = FALSE]
  ELSE s

\* vm.$destroy: let i = vm._watchers.length; while (i--) vm._watchers[i].teardown()
RECURSIVE destroy(_, _)
destroy(s, i) == IF i = 0 THEN s ELSE destroy(teardown(s, i), i - 1)

\* Watcher.depend
RECURSIVE wdependLoop(_, _, _)
wdependLoop(s, w, i) ==
  IF i = 0 THEN s ELSE wdependLoop(depend(s, s.ws[w].deps[i]), w, i - 1)

wdepend(s, w) == wdependLoop(s, w, Len(s.ws[w].deps))

(***************************************************************************)
(* Reactive property read                                                  *)
(***************************************************************************)
\* bookkeeping of the model: the properties the running getter has read
NoteRead(s, ps) ==
  IF DepTarget(s) # 0 THEN [s EXCEPT !.reading[DepTarget(s)] = @ \cup ps] ELSE s

RECURSIVE dependArray(_, _, _)
dependArray(s, items, i) ==
  IF i > Len(items) THEN s
  ELSE LET e == items[i]
           s1 == IF isObject(e) /\ e.n \in s.ob THEN depend(s, DepOfOb(e.n)) ELSE s
       IN dependArray(s1, items, i + 1)

\* if (childOb) { childOb.dep.depend(); if (Array.isArray(value)) dependArray(value) }
dependChild(s, p) ==
  IF s.childOb[p] # NoOb
  THEN IF IsArray(s.val[p])
       THEN dependArray(depend(s, DepOfOb(s.childOb[p])), s.arr, 1)
       ELSE depend(s, DepOfOb(s.childOb[p]))
  ELSE s

\* a getter that does not register the child Observer's Dep
reactiveGetter_NoChild(s, p) ==
  [(IF DepTarget(s) # 0 THEN depend(NoteRead(s, {p}), p) ELSE s)
     EXCEPT !.ret = s.val[p]]

reactiveGetter(s, p) ==
  [(IF DepTarget(s) # 0 THEN dependChild(depend(NoteRead(s, {p}), p), p) ELSE s)
     EXCEPT !.ret = s.val[p]]

RECURSIVE get(_, _)
RECURSIVE reactiveSetter(_, _, _)

\* this.value = <result of get()>; this.dirty = false
evaluateStore(s1, w) ==
  IF s1.exc THEN s1
  ELSE [s1 EXCEPT !.ws[w].value = s1.ret, !.ws[w].dirty = FALSE]

\* evaluate that leaves dirty set
evaluate_KeepDirty(s, w) == [evaluateStore(get(s, w), w) EXCEPT !.ws[w].dirty = s.ws[w].dirty]

\* Watcher.evaluate
evaluate(s, w) == evaluateStore(get(s, w), w)

\* this._computedWatchers[key]: the lazy watcher of the computed property
ComputedWatcher(s) ==
  LET L == {i \in 1..Len(s.ws) : s.ws[i].lazy}
  IN IF L = {} THEN 0 ELSE CHOOSE i \in L : \A j \in L : i <= j

\* if (Dep.target) watcher.depend(); return watcher.value
computedDepend(s1, watcher) ==
  IF s1.exc THEN s1
  ELSE [(IF DepTarget(s1) # 0
         THEN wdepend(NoteRead(s1, s1.lastRead[watcher]), watcher)
         ELSE s1) EXCEPT !.ret = s1.ws[watcher].value]

computedGetterOf(s, watcher) ==
  IF watcher # 0
  THEN computedDepend(IF s.ws[watcher].dirty THEN evaluate(s, watcher) ELSE s, watcher)
  ELSE [s EXCEPT !.ret = Undef]

computedGetter(s) == computedGetterOf(s, ComputedWatcher(s))

(***************************************************************************)
(* The getters of the watchers (expOrFn)                                   *)
(***************************************************************************)
\* function () { return this.c === 0 ? this.a : this.b }
GetterBranch(s) ==
  reactiveGetter(reactiveGetter(s, "c"), IF s.val["c"] = Num(0) THEN "a" ELSE "b")

\* function () { if (this.a === 1) throw new Error(); return this.a }
GetterBoom(s) == [reactiveGetter(s, "a") EXCEPT !.exc = (s.val["a"] = Num(1))]

\* function () { if (this.a === 1) throw new Error(); return this.b }
GetterBoomRest(s1) ==
  IF s1.ret = Num(1) THEN [s1 EXCEPT !.exc = TRUE, !.ret = Undef]
  ELSE reactiveGetter(s1, "b")

GetterBoomB(s) == GetterBoomRest(reactiveGetter(s, "a"))

\* function () { if (this.a === 0) this.a = 1; return this.b }
GetterBumpWrite(s1) ==
  IF s1.ret = Num(0) THEN reactiveSetter(s1, "a", Num(1)) ELSE s1

GetterBump(s) == reactiveGetter(GetterBumpWrite(reactiveGetter(s, "a")), "b")

\* function () { const v = this.c === 0 ? this.a : this.b
\*               if (this.c === 1) <this watcher>.teardown(); return v }
GetterQuitStop(s1) ==
  IF s1.val["c"] = Num(1)
  THEN [teardown(reactiveGetter(s1, "c"), DepTarget(s1)) EXCEPT !.ret = s1.ret]
  ELSE [reactiveGetter(s1, "c") EXCEPT !.ret = s1.ret]

GetterQuit(s) == GetterQuitStop(GetterBranch(s))

\* catch (e) { handleError(e, vm, info) }
handled(s1) == IF s1.exc THEN [s1 EXCEPT !.exc = FALSE, !.errors = @ + 1] ELSE s1

\* the handler of a hook of a component, a data function or the callback of
\* an immediate watcher: "copyA" stores the value of a in b, "flipB" writes
\* to b the value it does not hold, "throw" throws, "readB" reads b,
\* "readComp" reads the computed property, "readThrow" reads b and throws
updatedHandler(s, hook) ==
  CASE hook = "copyA" -> reactiveSetter(s, "b", s.val["a"])
    [] hook = "flipB" ->
         reactiveSetter(s, "b", IF s.val["b"] = Num(0) THEN Num(1) ELSE Num(0))
    [] hook = "throw" -> [s EXCEPT !.exc = TRUE]
    [] hook = "readB" -> reactiveGetter(s, "b")
    [] hook = "readComp" -> computedGetter(s)
    [] hook = "readThrow" -> [reactiveGetter(s, "b") EXCEPT !.exc = TRUE]
    [] OTHER -> s

\* a callHook without pushTarget() and popTarget()
callHook_Tracked(s, hook) == handled(updatedHandler(s, hook))

\* callHook(vm, hook): pushTarget(); the handlers, each through
\* invokeWithErrorHandling; popTarget()
callHook(s, hook) == popTarget(handled(updatedHandler(pushTarget(s, 0), hook)))

\* getData(data, vm): pushTarget(); try { return data.call(vm, vm) }
\* catch (e) { handleError(e, vm, "data()"); return {} } finally { popTarget() }
getData(s, fn) == popTarget(handled(updatedHandler(pushTarget(s, 0), fn)))

\* vm.$watch with immediate: pushTarget();
\* invokeWithErrorHandling(cb, vm, [watcher.value], vm, info); popTarget()
watchImmediate(s, cb) == popTarget(handled(updatedHandler(pushTarget(s, 0), cb)))

\* the render function of a parent that reads a, makes a child component in
\* whose initialisation a hook, the data function or an immediate watcher
\* callback runs, and then reads c
HookGetters == {"hookB", "hookComp", "dataB", "dataComp", "dataThrow", "immB", "immComp"}

HandlerOf(g) ==
  CASE g \in {"hookB", "dataB", "immB"} -> "readB"
    [] g = "dataThrow" -> "readThrow"
    [] OTHER -> "readComp"

GetterChildInit(s1, g) ==
  CASE g \in {"hookB", "hookComp"} -> callHook(s1, HandlerOf(g))
    [] g \in {"dataB", "dataComp", "dataThrow"} -> getData(s1, HandlerOf(g))
    [] OTHER -> watchImmediate(s1, HandlerOf(g))

GetterMount(s, g) ==
  [reactiveGetter(GetterChildInit(reactiveGetter(s, "a"), g), "c") EXCEPT !.ret = Undef]

GetterBody(s0, g) ==
  CASE g \in {"a", "b", "c"} -> reactiveGetter(s0, g)
    [] g = "ab" ->
         [reactiveGetter(reactiveGetter(s0, "a"), "b") EXCEPT !.ret = Undef]
    [] g = "branch" -> GetterBranch(s0)
    [] g = "comp" -> computedGetter(s0)
    [] g = "aComp" -> computedGetter(reactiveGetter(s0, "a"))
    [] g = "len" ->
         [reactiveGetter(s0, "list") EXCEPT !.ret = Num(Len(s0.arr))]
    [] g = "boom" -> GetterBoom(s0)
    [] g = "boomB" -> GetterBoomB(s0)
    [] g = "bump" -> GetterBump(s0)
    [] g = "quit" -> GetterQuit(s0)
    [] g \in HookGetters -> GetterMount(s0, g)
    [] OTHER -> [s0 EXCEPT !.ret = Undef]

Getter(s, w) == GetterBody([s EXCEPT !.gGet[w] = @ + 1], s.ws[w].getter)

\* a get() that rethrows the error of a user watcher as well
getCatch_Rethrow(s2, w) == s2

\* a get() that hands every error to handleError
getCatch_HandleAll(s2, w) ==
  IF s2.exc THEN [s2 EXCEPT !.exc = FALSE, !.ret = Undef, !.errors = @ + 1] ELSE s2

\* Watcher.get
\* catch (e) { if (this.user) handleError(e, ...) else throw e }
getCatch(s2, w) ==
  IF s2.exc /\ s2.ws[w].user
  THEN [s2 EXCEPT !.exc = FALSE, !.ret = Undef, !.errors = @ + 1]
  ELSE s2

\* bookkeeping of the model: what the completed get() has read; outer is
\* what the get() of the same watcher that was going on when this one began
\* had read, and goes on reading
getDone(s4, w, outer) ==
  [s4 EXCEPT !.pruned[w] = s4.lastRead[w] \ s4.reading[w],
             !.lastRead[w] = s4.reading[w],
             !.reading[w] = outer]

\* a get() whose popTarget() is the last statement of the try block
popReturned(s2) == IF s2.exc THEN s2 ELSE popTarget(s2)

get_PopInTry(s, w) ==
  getDone(cleanupDeps(getCatch(popReturned(
            Getter([pushTarget(s, w) EXCEPT !.reading[w] = {}], w)), w), w), w,
          s.reading[w])

get(s, w) ==
  getDone(cleanupDeps(popTarget(getCatch(
            Getter([pushTarget(s, w) EXCEPT !.reading[w] = {}], w), w)), w), w,
          s.reading[w])

(***************************************************************************)
(* nextTick and the scheduler queue                                        *)
(***************************************************************************)
\* a nextTick that calls timerFunc whatever pending says
nextTick_NoPending(s, cb) ==
  [s EXCEPT !.callbacks = Append(@, cb), !.pending = TRUE, !.timers = @ + 1]

\* callbacks.push(wrapper of cb); if (!pending) { pending = true; timerFunc() }
nextTick(s, cb) ==
  LET s1 == [s EXCEPT !.callbacks = Append(@, cb)]
  IN IF ~s1.pending THEN [s1 EXCEPT !.pending = TRUE, !.timers = @ + 1] ELSE s1

\* a scan that does not stop at the cursor of the flush
RECURSIVE ScanBack_PastCursor(_, _, _, _)
ScanBack_PastCursor(q, i, idx, id) ==
  IF i >= 0 /\ q[i + 1] > id THEN ScanBack_PastCursor(q, i - 1, idx, id) ELSE i

\* while (i > index && queue[i].id > watcher.id) i--
RECURSIVE ScanBack(_, _, _, _)
ScanBack(q, i, idx, id) ==
  IF i > idx /\ q[i + 1] > id THEN ScanBack(q, i - 1, idx, id) ELSE i

\* queue.splice(pos, 0, w)
SpliceIn(q, pos, w) == SubSeq(q, 1, pos) \o <<w>> \o SubSeq(q, pos + 1, Len(q))

\* an enqueue that hands the flush to nextTick whatever waiting says
queueFlush_Always(s) ==
  [nextTick([s EXCEPT !.waiting = TRUE], "flushSchedulerQueue")
     EXCEPT !.gTick = @ + 1]

\* if (!waiting) { waiting = true; nextTick(flushSchedulerQueue) }
queueFlush(s) ==
  IF ~s.waiting
  THEN [nextTick([s EXCEPT !.waiting = TRUE], "flushSchedulerQueue")
          EXCEPT !.gTick = @ + 1]
  ELSE s

\* an enqueue that pushes the watcher to the end of the queue during a
\* flush as well
enqueue_Push(s, w) ==
  queueFlush([s EXCEPT !.has = @ \cup {w}, !.gEnq[w] = @ + 1,
                       !.queue = Append(@, w)])

\* the body of queueWatcher's if (has[id] == null)
enqueue(s, w) ==
  queueFlush([s EXCEPT !.has = @ \cup {w}, !.gEnq[w] = @ + 1,
                       !.queue = IF ~s.flushing THEN Append(@, w)
                                 ELSE SpliceIn(@, ScanBack(@, Len(@) - 1, s.index, w) + 1, w)])

\* queueWatcher without the has[id] test
queueWatcher_NoDedup(s, w) == enqueue(s, w)

queueWatcher(s, w) == IF w \notin s.has THEN enqueue(s, w) ELSE s

resetSchedulerState(s) ==
  [s EXCEPT !.index = 0, !.queue = <<>>, !.has = {},
            !.circular = [i \in DOMAIN s.circular |-> 0],
            !.waiting = FALSE, !.flushing = FALSE]

(***************************************************************************)
(* Observer                                                                *)
(***************************************************************************)
RECURSIVE observeArray(_, _, _)
observeArray(s, items, i) ==
  IF i > Len(items) THEN s
  ELSE LET e == items[i]
           s1 == IF isObject(e) /\ e.n \notin s.ob
                 THEN [s EXCEPT !.ob = @ \cup {e.n}]
                 ELSE s
       IN observeArray(s1, items, i + 1)

\* observe(value): the state after the call (every object of the model is a
\* plain object or an array, extensible and not a Vue instance)
observe(s, v) ==
  IF ~isObject(v) THEN s
  ELSE IF v.n \in s.ob THEN s
  ELSE LET s1 == [s EXCEPT !.ob = @ \cup {v.n}]
       IN IF IsArray(v) THEN observeArray(s1, s1.arr, 1) ELSE s1

\* observe(value): the Observer it returns
observed(v) == IF isObject(v) THEN v.n ELSE NoOb

(***************************************************************************)
(* Reactive property write, notification and watcher runs                  *)
(***************************************************************************)
RECURSIVE notify(_, _)

\* val = newVal; childOb = observe(newVal); dep.notify()
setterStore(s, p, newVal) ==
  notify([observe([s EXCEPT !.val[p] = newVal, !.gChanged = @ \cup {p}], newVal)
            EXCEPT !.childOb[p] = observed(newVal)], p)

\* a setter that compares with === only
reactiveSetter_NoNaNTest(s, p, newVal) ==
  IF StrictEq(newVal, s.val[p]) THEN s ELSE setterStore(s, p, newVal)

reactiveSetter(s, p, newVal) ==
  IF StrictEq(newVal, s.val[p])
     \/ (~StrictEq(newVal, newVal) /\ ~StrictEq(s.val[p], s.val[p]))
  THEN s
  ELSE setterStore(s, p, newVal)

\* the callbacks of the watchers (cb)
Callback(s, w, value, oldValue) ==
  LET c == s.ws[w].cb
  IN CASE c = "setB" -> reactiveSetter(s, "b", value)
       [] c = "flipA" ->
            reactiveSetter(s, "a", IF s.val["a"] = Num(0) THEN Num(1) ELSE Num(0))
       [] c = "flipB" ->
            reactiveSetter(s, "b", IF s.val["b"] = Num(0) THEN Num(1) ELSE Num(0))
       [] c = "throw" -> [s EXCEPT !.exc = TRUE]
       [] c = "stop" -> teardown(s, w)
       [] OTHER -> s

invokeWithErrorHandling(s, w, value, oldValue) == handled(Callback(s, w, value, oldValue))

\* while (i--) { watcher = queue[i]; if (vm._watcher === watcher && ...) callHook(vm, "updated") }
\* (with no handler in vm.$options.updated no iteration changes anything)
RECURSIVE callUpdatedHooks(_, _, _, _)
callUpdatedHooks(s, q, i, hook) ==
  IF i = 0 \/ hook = "none" THEN s
  ELSE callUpdatedHooks(IF ~s.ws[q[i]].user /\ ~s.ws[q[i]].lazy
                        THEN callHook(s, hook) ELSE s,
                        q, i - 1, hook)

\* an end of the flush that calls the hooks before it resets the scheduler
flushEnd_HooksFirst(s, hook) ==
  resetSchedulerState(callUpdatedHooks(s, s.queue, Len(s.queue), hook))

\* updatedQueue = queue.slice(); resetSchedulerState(); callUpdatedHooks(updatedQueue)
flushEnd(s, hook) ==
  callUpdatedHooks(resetSchedulerState(s), s.queue, Len(s.queue), hook)

\* this.value = value, then the callback
runCallback(s1, w, value, oldValue) ==
  IF s1.ws[w].user
  THEN invokeWithErrorHandling([s1 EXCEPT !.ws[w].value = value,
                                          !.gCb = Append(@, <<w, value, oldValue>>)],
                               w, value, oldValue)
  ELSE Callback([s1 EXCEPT !.ws[w].value = value,
                           !.gCb = Append(@, <<w, value, oldValue>>)],
                w, value, oldValue)

\* run after get() that hands the callback (oldValue, value)
runAfterGet_Swapped(s1, w) ==
  IF s1.exc THEN s1
  ELSE IF ~StrictEq(s1.ret, s1.ws[w].value) \/ isObject(s1.ret) \/ s1.ws[w].deep
  THEN runCallback(s1, w, s1.ws[w].value, s1.ret)
  ELSE s1

\* run after get() that calls the callback whether or not the value changed
runAfterGet_Always(s1, w) ==
  IF s1.exc THEN s1 ELSE runCallback(s1, w, s1.ret, s1.ws[w].value)

\* Watcher.run after const value = this.get()
runAfterGet(s1, w) ==
  IF s1.exc THEN s1
  ELSE IF ~StrictEq(s1.ret, s1.ws[w].value) \/ isObject(s1.ret) \/ s1.ws[w].deep
  THEN runCallback(s1, w, s1.ret, s1.ws[w].value)
  ELSE s1

\* a run() that does not test this.active
run_NoActiveTest(s, w) == runAfterGet(get(s, w), w)

\* Watcher.run
run(s, w) == IF s.ws[w].active THEN runAfterGet(get(s, w), w) ELSE s

\* an update() that sets dirty and then goes on to the other branches
updateBody_LazyFallsThrough(s0, w) ==
  IF s0.ws[w].sync THEN run([s0 EXCEPT !.ws[w].dirty = s0.ws[w].lazy \/ @], w)
  ELSE queueWatcher([s0 EXCEPT !.ws[w].dirty = s0.ws[w].lazy \/ @], w)

\* Watcher.update
updateBody(s0, w) ==
  IF s0.ws[w].lazy THEN [s0 EXCEPT !.ws[w].dirty = TRUE]
  ELSE IF s0.ws[w].sync THEN run(s0, w)
  ELSE queueWatcher(s0, w)

update(s, w) == updateBody([s EXCEPT !.gUpd[w] = @ + 1], w)

RECURSIVE notifyLoop(_, _, _)
notifyLoop(s, subs, i) ==
  IF i > Len(subs) \/ s.exc THEN s
  ELSE notifyLoop(update(s, subs[i]), subs, i + 1)

\* Dep.notify: update() on a copy of the subscriber list, in order
notify(s, d) == notifyLoop([s EXCEPT !.gNotify[d] = @ + 1], s.subs[d], 1)

(***************************************************************************)
(* Array mutators (observer/array.js)                                      *)
(***************************************************************************)
\* Array.prototype.sort without comparator: by string, numbers before
\* "[object Object]"
SortKey(v) == IF v.k = "num" THEN v.n ELSE 9

RECURSIVE InsertByKey(_, _)
InsertByKey(q, x) ==
  IF q = <<>> THEN <<x>>
  ELSE IF SortKey(x) < SortKey(Head(q)) THEN <<x>> \o q
  ELSE <<Head(q)>> \o InsertByKey(Tail(q), x)

RECURSIVE NativeSort(_)
NativeSort(q) == IF q = <<>> THEN <<>> ELSE InsertByKey(NativeSort(Front(q)), Last(q))

RECURSIVE Reverse(_)
Reverse(q) == IF q = <<>> THEN <<>> ELSE Append(Reverse(Tail(q)), Head(q))

Min(x, y) == IF x < y THEN x ELSE y

\* original.apply(this, args): args of splice are <<start, deleteCount, items...>>
original(items, method, args) ==
  CASE method = "push" -> items \o args
    [] method = "pop" -> IF items = <<>> THEN items ELSE Front(items)
    [] method = "shift" -> IF items = <<>> THEN items ELSE Tail(items)
    [] method = "unshift" -> args \o items
    [] method = "splice" ->
         LET start == Min(args[1].n, Len(items))
             del == Min(args[2].n, Len(items) - start)
         IN SubSeq(items, 1, start) \o SubSeq(args, 3, Len(args))
              \o SubSeq(items, start + del + 1, Len(items))
    [] method = "sort" -> NativeSort(items)
    [] OTHER -> Reverse(items)

inserted(method, args) ==
  CASE method \in {"push", "unshift"} -> args
    [] method = "splice" -> SubSeq(args, 3, Len(args))
    [] OTHER -> <<>>

\* a mutator that notifies only when it has inserted something
mutator_NotifyOnInsert(s, method, args) ==
  IF inserted(method, args) = <<>>
  THEN [s EXCEPT !.arr = original(@, method, args)]
  ELSE notify(observeArray([s EXCEPT !.arr = original(@, method, args)],
                           inserted(method, args), 1),
              DepOfOb(0))

mutator(s, method, args) ==
  notify(observeArray([s EXCEPT !.arr = original(@, method, args)],
                      inserted(method, args), 1),
         DepOfOb(0))

(***************************************************************************)
(* Virtual DOM: vnodes, the DOM operations and patchVnode (vdom/patch.js)  *)
(***************************************************************************)
\* a VNode: id is the identity of the object, 0 stands for undefined in id,
\* key, elm and children, "" for an undefined tag or text; children is the
\* identity of the children array; data says that data is defined, and it
\* then carries the hooks prepatch, update and postpatch
VNode(id, key, tag, elm) ==
  [id |-> id, key |-> key, tag |-> tag, elm |-> elm, children |-> 0,
   text |-> "", isComment |-> FALSE, isStatic |-> FALSE, isOnce |-> FALSE,
   isCloned |-> FALSE, data |-> FALSE, attrs |-> "undef",
   asyncFactory |-> 0, isAsyncPlaceholder |-> FALSE]

NoVnode == VNode(0, 0, "", 0)

isDef(v) == v # NoVnode
isUndef(v) == v = NoVnode

\* vnode.children.slice(): a new array with the same elements
Slice(children) == 0 - children

\* cloneVNode: a new object (written as the negative id)
cloneVNode(vnode) ==
  [vnode EXCEPT !.id = 0 - vnode.id,
                !.children = IF vnode.children # 0 THEN Slice(vnode.children) ELSE 0,
                !.isOnce = FALSE,
                !.isCloned = TRUE]

\* isDef(a.data) && isDef(a.data.attrs) && a.data.attrs.type: "false" when
\* data or attrs is undefined, "undefined" when attrs has no type
TypeOf(a) ==
  IF ~a.data \/ a.attrs = "undef" THEN "false"
  ELSE IF a.attrs = "notype" THEN "undefined"
  ELSE a.attrs

\* makeMap("text,number,password,search,email,tel,url")
isTextInputType(type) ==
  type \in {"text", "number", "password", "search", "email", "tel", "url"}

\* a sameInputType that takes an absent type and absent attrs for the same
sameInputType_AbsentAlike(a, b) ==
  \/ a.tag # "input"
  \/ TypeOf(a) = TypeOf(b)
  \/ {TypeOf(a), TypeOf(b)} \subseteq {"false", "undefined"}
  \/ isTextInputType(TypeOf(a)) /\ isTextInputType(TypeOf(b))

sameInputType(a, b) ==
  \/ a.tag # "input"
  \/ TypeOf(a) = TypeOf(b)
  \/ isTextInputType(TypeOf(a)) /\ isTextInputType(TypeOf(b))

\* asyncFactory.error of the async component factories: factory 2 has failed
FactoryError(f) == f = 2

sameVnode(a, b) ==
  /\ a.key = b.key
  /\ a.asyncFactory = b.asyncFactory
  /\ \/ /\ a.tag = b.tag
        /\ a.isComment = b.isComment
        /\ a.data = b.data
        /\ sameInputType(a, b)
     \/ /\ a.isAsyncPlaceholder
        /\ ~FactoryError(b.asyncFactory)

\* the child nodes of the parent element are a sequence of elements
IndexOf(q, x) == IF \E i \in 1..Len(q) : q[i] = x
                 THEN CHOOSE i \in 1..Len(q) : q[i] = x
                 ELSE 0

removeChild(dm, el) == SelectSeq(dm, LAMBDA e : e # el)

\* nodeOps.nextSibling: 0 stands for null
nextSibling(dm, el) ==
  IF IndexOf(dm, el) = 0 \/ IndexOf(dm, el) = Len(dm) THEN 0
  ELSE dm[IndexOf(dm, el) + 1]

appendChild(dm, el) == Append(removeChild(dm, el), el)

InsertAt(q, i, x) == SubSeq(q, 1, i - 1) \o <<x>> \o SubSeq(q, i, Len(q))

\* nodeOps.insertBefore(parent, el, ref): el is taken out of the place it
\* has and put before ref, at the end when ref is null
insertBefore(dm, el, ref) ==
  IF ref = el THEN dm
  ELSE IF ref = 0 \/ IndexOf(dm, ref) = 0 THEN appendChild(dm, el)
  ELSE InsertAt(removeChild(dm, el), IndexOf(removeChild(dm, el), ref), el)

\* insert(parent, elm, ref)
insert(dm, el, ref) ==
  IF ref # 0
  THEN IF IndexOf(dm, ref) # 0 THEN insertBefore(dm, el, ref) ELSE dm
  ELSE appendChild(dm, el)

\* what patchVnode does besides setting vnode.elm: the calls it makes
CallsOfChildren(oldVnode, vnode) ==
  IF vnode.text = ""
  THEN IF oldVnode.children # 0 /\ vnode.children # 0
       THEN IF oldVnode.children # vnode.children THEN <<"updateChildren">> ELSE <<>>
       ELSE IF vnode.children # 0
       THEN (IF oldVnode.text # "" THEN <<"setTextContent">> ELSE <<>>)
              \o <<"addVnodes">>
       ELSE IF oldVnode.children # 0 THEN <<"removeVnodes">>
       ELSE IF oldVnode.text # "" THEN <<"setTextContent">>
       ELSE <<>>
  ELSE IF oldVnode.text # vnode.text THEN <<"setTextContent">>
  ELSE <<>>

\* patchVnode after the guard that clones a vnode in use
patchBody(oldVnode, vnode) ==
  IF /\ vnode.isStatic /\ oldVnode.isStatic /\ vnode.key = oldVnode.key
     /\ (vnode.isCloned \/ vnode.isOnce)
  THEN [vnode |-> [vnode EXCEPT !.elm = oldVnode.elm], calls |-> <<>>]
  ELSE [vnode |-> [vnode EXCEPT !.elm = oldVnode.elm],
        calls |-> (IF vnode.data THEN <<"prepatch">> ELSE <<>>)
                    \o (IF vnode.data /\ vnode.tag # "" THEN <<"update">> ELSE <<>>)
                    \o CallsOfChildren(oldVnode, vnode)
                    \o (IF vnode.data THEN <<"postpatch">> ELSE <<>>)]

\* a patchVnode that compares the children arrays of the vnodes it is given
patchVnode_NoClone(oldVnode, vnode, ownerArray) ==
  IF oldVnode.id = vnode.id THEN [vnode |-> vnode, calls |-> <<>>]
  ELSE patchBody(oldVnode, vnode)

\* a patchVnode without the test for the same reference
patchVnode_NoShortCircuit(oldVnode, vnode, ownerArray) ==
  IF vnode.elm # 0 /\ ownerArray
  THEN patchBody(oldVnode, cloneVNode(vnode))
  ELSE patchBody(oldVnode, vnode)

\* patchVnode(oldVnode, vnode, insertedVnodeQueue, ownerArray, index): the
\* vnode that is patched (vnode or its clone, which replaces it in
\* ownerArray) and the calls made; ownerArray says whether one is given
patchVnode(oldVnode, vnode, ownerArray) ==
  IF oldVnode.id = vnode.id THEN [vnode |-> vnode, calls |-> <<>>]
  ELSE IF vnode.elm # 0 /\ ownerArray
  THEN patchBody(oldVnode, cloneVNode(vnode))
  ELSE patchBody(oldVnode, vnode)

\* createKeyToOldIdx(children, beginIdx, endIdx): the last index of each key
createKeyToOldIdx(children, beginIdx, endIdx) ==
  [k \in {children[i + 1].key : i \in beginIdx..endIdx} \ {0} |->
     CHOOSE i \in beginIdx..endIdx :
       /\ children[i + 1].key = k
       /\ \A j \in beginIdx..endIdx : children[j + 1].key = k => j <= i]

\* findIdxInOld(node, oldCh, start, end): -1 stands for undefined
findIdxInOld(node, oldCh, start, end) ==
  IF \E i \in start..(end - 1) : isDef(oldCh[i + 1]) /\ sameVnode(node, oldCh[i + 1])
  THEN CHOOSE i \in start..(end - 1) :
         /\ isDef(oldCh[i + 1]) /\ sameVnode(node, oldCh[i + 1])
         /\ \A j \in start..(i - 1) :
              ~(isDef(oldCh[j + 1]) /\ sameVnode(node, oldCh[j + 1]))
  ELSE 0 - 1

(***************************************************************************)
(* updateChildren (vdom/patch.js): d is the record of its arguments, its   *)
(* local variables, the child nodes of parentElm and what it has done      *)
(***************************************************************************)
\* the element createElm makes for the new child at index i
FreshElm(i) == 0 - (i + 1)

\* record of a step: patchVnode(oldCh[oi], newCh[ni], ..., newCh, ni)
patchChild(d, oi, ni) ==
  [d EXCEPT !.newCh[ni + 1] = patchVnode(d.oldCh[oi + 1], @, TRUE).vnode,
            !.patched = Append(@, <<oi, ni>>)]

\* nodeOps.insertBefore(parentElm, el, ref), when canMove
move(d, el, ref) ==
  IF d.removeOnly THEN d
  ELSE [d EXCEPT !.dom = insertBefore(@, el, ref), !.moved = Append(@, el)]

\* createElm(vnode, insertedVnodeQueue, parentElm, refElm, false, newCh, ni)
createElm(d, ni, refElm) ==
  [d EXCEPT !.newCh[ni + 1] =
              [(IF @.elm # 0 THEN cloneVNode(@) ELSE @) EXCEPT !.elm = FreshElm(ni)],
            !.dom = insert(@, FreshElm(ni), refElm),
            !.created = Append(@, ni)]

RECURSIVE addVnodes(_, _, _, _)
addVnodes(d, refElm, startIdx, endIdx) ==
  IF startIdx > endIdx THEN d
  ELSE addVnodes(createElm(d, startIdx, refElm), refElm, startIdx + 1, endIdx)

\* removeNode(ch.elm) of a vnode without data
removeNode(d, ch, i) ==
  [d EXCEPT !.dom = removeChild(@, ch.elm), !.removed = Append(@, i)]

RECURSIVE removeVnodes(_, _, _)
removeVnodes(d, startIdx, endIdx) ==
  IF startIdx > endIdx THEN d
  ELSE removeVnodes(IF isDef(d.oldCh[startIdx + 1])
                    THEN removeNode(d, d.oldCh[startIdx + 1], startIdx)
                    ELSE d,
                    startIdx + 1, endIdx)

oldStartVnode(d) == d.oldCh[d.oldStartIdx + 1]
oldEndVnode(d) == d.oldCh[d.oldEndIdx + 1]
newStartVnode(d) == d.newCh[d.newStartIdx + 1]
newEndVnode(d) == d.newCh[d.newEndIdx + 1]

\* sameVnode(oldStartVnode, newStartVnode)
stepStartStart(d) ==
  [patchChild(d, d.oldStartIdx, d.newStartIdx)
     EXCEPT !.oldStartIdx = @ + 1, !.newStartIdx = @ + 1]

\* sameVnode(oldEndVnode, newEndVnode)
stepEndEnd(d) ==
  [patchChild(d, d.oldEndIdx, d.newEndIdx)
     EXCEPT !.oldEndIdx = @ - 1, !.newEndIdx = @ - 1]

\* a move to the right that puts the element before old-end's element
stepStartEnd_BeforeEnd(d) ==
  [move(patchChild(d, d.oldStartIdx, d.newEndIdx),
        oldStartVnode(d).elm, oldEndVnode(d).elm)
     EXCEPT !.oldStartIdx = @ + 1, !.newEndIdx = @ - 1]

\* sameVnode(oldStartVnode, newEndVnode): the vnode moved right
stepStartEnd(d) ==
  [move(patchChild(d, d.oldStartIdx, d.newEndIdx),
        oldStartVnode(d).elm, nextSibling(d.dom, oldEndVnode(d).elm))
     EXCEPT !.oldStartIdx = @ + 1, !.newEndIdx = @ - 1]

\* sameVnode(oldEndVnode, newStartVnode): the vnode moved left
stepEndStart(d) ==
  [move(patchChild(d, d.oldEndIdx, d.newStartIdx),
        oldEndVnode(d).elm, oldStartVnode(d).elm)
     EXCEPT !.oldEndIdx = @ - 1, !.newStartIdx = @ + 1]

\* idxInOld, given the map of the keys; -1 stands for undefined
idxInOld(d, map) ==
  IF newStartVnode(d).key # 0
  THEN IF newStartVnode(d).key \in DOMAIN map THEN map[newStartVnode(d).key] ELSE 0 - 1
  ELSE findIdxInOld(newStartVnode(d), d.oldCh, d.oldStartIdx, d.oldEndIdx)

\* a keyed step that reuses the vnode found under the key whatever it is
keyedAt_NoSameCheck(d, idx) ==
  IF idx < 0
  THEN createElm(d, d.newStartIdx, oldStartVnode(d).elm)
  ELSE [move(patchChild(d, idx, d.newStartIdx),
             d.oldCh[idx + 1].elm, oldStartVnode(d).elm)
          EXCEPT !.oldCh[idx + 1] = NoVnode]

\* a keyed step that creates an element also for a vnode it could reuse
keyedAt_AlwaysCreate(d, idx) ==
  createElm(d, d.newStartIdx, oldStartVnode(d).elm)

\* a keyed step that leaves the slot of the vnode it has reused
keyedAt_KeepSlot(d, idx) ==
  IF idx < 0
  THEN createElm(d, d.newStartIdx, oldStartVnode(d).elm)
  ELSE IF sameVnode(d.oldCh[idx + 1], newStartVnode(d))
  THEN move(patchChild(d, idx, d.newStartIdx),
            d.oldCh[idx + 1].elm, oldStartVnode(d).elm)
  ELSE createElm(d, d.newStartIdx, oldStartVnode(d).elm)

\* the last branch of the loop after idxInOld has been computed
keyedAt(d, idx) ==
  IF idx < 0
  THEN createElm(d, d.newStartIdx, oldStartVnode(d).elm)
  ELSE IF sameVnode(d.oldCh[idx + 1], newStartVnode(d))
  THEN [move(patchChild(d, idx, d.newStartIdx),
             d.oldCh[idx + 1].elm, oldStartVnode(d).elm)
          EXCEPT !.oldCh[idx + 1] = NoVnode]
  ELSE createElm(d, d.newStartIdx, oldStartVnode(d).elm)

\* the last branch of the loop once oldKeyToIdx is defined
stepKeyedWith(d) ==
  [keyedAt(d, idxInOld(d, d.oldKeyToIdx.map)) EXCEPT !.newStartIdx = @ + 1]

stepKeyed(d) ==
  stepKeyedWith(IF d.oldKeyToIdx.def THEN d
                ELSE [d EXCEPT !.oldKeyToIdx =
                        [def |-> TRUE,
                         map |-> createKeyToOldIdx(d.oldCh, d.oldStartIdx, d.oldEndIdx)]])

\* the name of the branch an iteration of the loop takes
branch(d) ==
  IF isUndef(oldStartVnode(d)) THEN "oldStartUndef"
  ELSE IF isUndef(oldEndVnode(d)) THEN "oldEndUndef"
  ELSE IF sameVnode(oldStartVnode(d), newStartVnode(d)) THEN "startStart"
  ELSE IF sameVnode(oldEndVnode(d), newEndVnode(d)) THEN "endEnd"
  ELSE IF sameVnode(oldStartVnode(d), newEndVnode(d)) THEN "startEnd"
  ELSE IF sameVnode(oldEndVnode(d), newStartVnode(d)) THEN "endStart"
  ELSE "keyed"

\* one iteration of the while loop of updateChildren
loopStep(d) ==
  CASE branch(d) = "oldStartUndef" -> [d EXCEPT !.oldStartIdx = @ + 1]
    [] branch(d) = "oldEndUndef" -> [d EXCEPT !.oldEndIdx = @ - 1]
    [] branch(d) = "startStart" -> stepStartStart(d)
    [] branch(d) = "endEnd" -> stepEndEnd(d)
    [] branch(d) = "startEnd" -> stepStartEnd(d)
    [] branch(d) = "endStart" -> stepEndStart(d)
    [] OTHER -> stepKeyed(d)

loopCondition(d) == d.oldStartIdx <= d.oldEndIdx /\ d.newStartIdx <= d.newEndIdx

\* updateChildren after the loop
afterLoop(d) ==
  IF d.oldStartIdx > d.oldEndIdx
  THEN addVnodes(d,
                 IF d.newEndIdx + 1 >= Len(d.newCh) THEN 0
                 ELSE d.newCh[d.newEndIdx + 2].elm,
                 d.newStartIdx, d.newEndIdx)
  ELSE IF d.newStartIdx > d.newEndIdx
  THEN removeVnodes(d, d.oldStartIdx, d.oldEndIdx)
  ELSE d

(***************************************************************************)
(* State                                                                   *)
(***************************************************************************)
(***************************************************************************)
(* Observers of a heap of objects: observe, Observer, defineReactive, set  *)
(* (core/observer/index.js).  Object 1 is the root data object of a        *)
(* component ({x: 0, y: 0}), object 2 a plain object ({x: 0}) and object 3 *)
(* an array ([]).  A record h holds the heap; Observers and Deps are       *)
(* numbered in the order of their creation.                                *)
(***************************************************************************)
MaxItems == 2

HObjs == {1, 2, 3}
HKeys == {"x", "y"}
HArray == 3
HRoot == 1

\* a property that is not there, and a data property that is no accessor
NoProp == [has |-> FALSE, val |-> Undef, dep |-> 0, childOb |-> 0]
Plain(v) == [has |-> TRUE, val |-> v, dep |-> 0, childOb |-> 0]

\* new Dep()
newDep(h) == [h EXCEPT !.nDeps = @ + 1]

\* dep.notify() of Dep d
hNotify(h, d) == [h EXCEPT !.notified = Append(@, d)]

RECURSIVE hObserve(_, _)

\* Object.defineProperty(obj, key, {get, set}) with the closure variables
\* val, dep and childOb
defineProperty(h2, n, key, v, dep) ==
  [h2 EXCEPT !.props[n][key] = [has |-> TRUE, val |-> v, dep |-> dep,
                                childOb |-> h2.retOb]]

\* defineReactive(obj, key, val)
hDefineReactive(h, n, key, v) ==
  defineProperty(hObserve(newDep(h), v), n, key, v, h.nDeps + 1)

\* Observer.walk: Object.keys(obj) in the order of insertion
HKeyOrder == <<"x", "y">>

RECURSIVE walk(_, _, _)
walk(h, n, i) ==
  IF i > Len(HKeyOrder) THEN h
  ELSE walk(IF h.props[n][HKeyOrder[i]].has
            THEN hDefineReactive(h, n, HKeyOrder[i], h.props[n][HKeyOrder[i]].val)
            ELSE h,
            n, i + 1)

\* Observer.observeArray
RECURSIVE hObserveArray(_, _, _)
hObserveArray(h, items, i) ==
  IF i > Len(items) THEN h ELSE hObserveArray(hObserve(h, items[i]), items, i + 1)

\* new Observer(value): this.dep = new Dep(); def(value, "__ob__", this)
ObserverInit(h, n) ==
  [h EXCEPT !.nDeps = @ + 1,
            !.observers = Append(@, [value |-> n, dep |-> h.nDeps + 1, vmCount |-> 0]),
            !.obOf[n] = Len(h.observers) + 1]

Observer(h, n) ==
  IF n = HArray
  THEN hObserveArray(ObserverInit(h, n), h.items, 1)
  ELSE walk(ObserverInit(h, n), n, 1)

\* an observe that does not look for __ob__
hObserve_NoReuse(h, v) ==
  IF ~isObject(v) \/ v.n \in h.isVue THEN [h EXCEPT !.retOb = 0]
  ELSE [Observer(h, v.n) EXCEPT !.retOb = Len(h.observers) + 1]

\* observe(value): retOb is the Observer it returns, 0 for undefined
hObserve(h, v) ==
  IF ~isObject(v) THEN [h EXCEPT !.retOb = 0]
  ELSE IF h.obOf[v.n] # 0 THEN [h EXCEPT !.retOb = h.obOf[v.n]]
  ELSE IF v.n \in h.isVue THEN [h EXCEPT !.retOb = 0]
  ELSE [Observer(h, v.n) EXCEPT !.retOb = Len(h.observers) + 1]

\* childOb = observe(newVal); dep.notify()
hSetterStore(h1, n, key) ==
  hNotify([h1 EXCEPT !.props[n][key].childOb = h1.retOb], h1.props[n][key].dep)

\* reactiveSetter of property key of object n
hReactiveSetter(h, n, key, newVal) ==
  IF StrictEq(newVal, h.props[n][key].val)
     \/ (~StrictEq(newVal, newVal) /\ ~StrictEq(h.props[n][key].val, h.props[n][key].val))
  THEN h
  ELSE hSetterStore(hObserve([h EXCEPT !.props[n][key].val = newVal], newVal), n, key)

\* target[key] = val
assign(h, n, key, v) ==
  IF h.props[n][key].dep # 0 THEN hReactiveSetter(h, n, key, v)
  ELSE [h EXCEPT !.props[n][key] = Plain(v)]

\* array[method](...args): the mutator of arrayMethods when the array has an
\* Observer, Array.prototype[method] otherwise
hMutatorNotify(h1, ob) == hNotify(h1, h1.observers[ob].dep)

hMutator(h, method, args) ==
  IF h.obOf[HArray] = 0
  THEN [h EXCEPT !.items = original(@, method, args)]
  ELSE hMutatorNotify(hObserveArray([h EXCEPT !.items = original(@, method, args)],
                                    inserted(method, args), 1),
                      h.obOf[HArray])

\* defineReactive(ob.value, key, val); ob.dep.notify()
setDefine(h, ob, key, v) ==
  hNotify(hDefineReactive(h, h.observers[ob].value, key, v), h.observers[ob].dep)

\* target._isVue || (ob && ob.vmCount)
isRoot(h, target) ==
  \/ target \in h.isVue
  \/ h.obOf[target] # 0 /\ h.observers[h.obOf[target]].vmCount > 0

\* a set that notifies the container when the key exists as well
set_NotifyExisting(h, target, key, v) ==
  IF target = HArray
  THEN [hMutator(h, "splice", <<Num(key), Num(1), v>>) EXCEPT !.ret = v]
  ELSE IF h.props[target][key].has /\ h.obOf[target] # 0
  THEN [hMutatorNotify(assign(h, target, key, v), h.obOf[target]) EXCEPT !.ret = v]
  ELSE IF h.props[target][key].has
  THEN [assign(h, target, key, v) EXCEPT !.ret = v]
  ELSE IF isRoot(h, target)
  THEN [h EXCEPT !.ret = v]
  ELSE IF h.obOf[target] = 0
  THEN [h EXCEPT !.props[target][key] = Plain(v), !.ret = v]
  ELSE [setDefine(h, h.obOf[target], key, v) EXCEPT !.ret = v]

\* set(target, key, val); the key of an array is an index up to its length
\* and the key of an object is none of Object.prototype
set(h, target, key, v) ==
  IF target = HArray
  THEN [hMutator(h, "splice", <<Num(key), Num(1), v>>) EXCEPT !.ret = v]
  ELSE IF h.props[target][key].has
  THEN [assign(h, target, key, v) EXCEPT !.ret = v]
  ELSE IF isRoot(h, target)
  THEN [h EXCEPT !.ret = v]
  ELSE IF h.obOf[target] = 0
  THEN [h EXCEPT !.props[target][key] = Plain(v), !.ret = v]
  ELSE [setDefine(h, h.obOf[target], key, v) EXCEPT !.ret = v]

\* a del that does not look for a Vue instance or root data
del_NoRootTest(h, target, key) ==
  IF target = HArray
  THEN hMutator(h, "splice", <<Num(key), Num(1)>>)
  ELSE IF ~h.props[target][key].has
  THEN h
  ELSE IF h.obOf[target] = 0
  THEN [h EXCEPT !.props[target][key] = NoProp]
  ELSE hNotify([h EXCEPT !.props[target][key] = NoProp],
               h.observers[h.obOf[target]].dep)

\* del(target, key); the key of an array is an index
del(h, target, key) ==
  IF target = HArray
  THEN hMutator(h, "splice", <<Num(key), Num(1)>>)
  ELSE IF isRoot(h, target)
  THEN h
  ELSE IF ~h.props[target][key].has
  THEN h
  ELSE IF h.obOf[target] = 0
  THEN [h EXCEPT !.props[target][key] = NoProp]
  ELSE hNotify([h EXCEPT !.props[target][key] = NoProp],
               h.observers[h.obOf[target]].dep)

\* if (asRootData && ob) ob.vmCount++
asRootData(h1) == [h1 EXCEPT !.observers[h1.retOb].vmCount = @ + 1]

\* the heap before anything is observed
RawHeap ==
  [props |-> [n \in HObjs |-> [k \in HKeys |->
                 IF n = HRoot \/ (n = 2 /\ k = "x") THEN Plain(Num(0)) ELSE NoProp]],
   items |-> <<>>,
   obOf |-> [n \in HObjs |-> 0],
   observers |-> <<>>,
   isVue |-> {},
   nDeps |-> 0,
   notified |-> <<>>,
   retOb |-> 0,
   ret |-> Undef]

VARIABLES
  val,          \* the value each reactive property of the data object holds
  childOb,      \* defineReactive's childOb of each property
  ob,           \* the objects that have an Observer (__ob__)
  arr,          \* the elements of the array data.list
  subs,         \* Dep.subs of every Dep
  ws,           \* the watchers, by id
  targetStack,  \* Dep's target stack; its last element is Dep.target
  queue, has, circular, waiting, flushing, index,   \* scheduler.js
  callbacks, pending,                               \* next-tick.js
  timers,       \* the flushCallbacks that timerFunc has scheduled
  pc,           \* where the microtask is: idle, callbacks, flush, flushEnd
  copies, ci,   \* flushCallbacks' copies and loop index
  prog,         \* the watchers the application creates, in creation order
  lastRead,     \* per watcher: the properties its last completed get() read
  pruned,       \* per watcher: properties the get() before that one read
                \* and the last one did not
  act,          \* what the last action did
  startQueue,   \* the queue as it was when the current flush started
  runLog,       \* the watchers run by the current flush, in order
  flushRuns,    \* per watcher: getter invocations in the current flush
  flushEnq,     \* per watcher: insertions into the queue during the flush
  flushChanged, \* properties changed by watchers during the current flush
  flushDeps,    \* per watcher: properties read by its last get() before the
                \* flush or by a get() during the flush
  tickUpd,      \* per watcher: update() calls since the last flush, saturating
  tickCause     \* per watcher: the operation that put it into the queue

VARIABLES
  oldCh, newCh,   \* the arguments of updateChildren
  removeOnly,
  dom,            \* the child nodes of parentElm, in order
  oldStartIdx, oldEndIdx, newStartIdx, newEndIdx, oldKeyToIdx,
  phase,          \* where updateChildren is: none, start, loop, done
  oldCh0,         \* oldCh as it was passed to updateChildren
  patched,        \* the calls of patchVnode: <<index in oldCh, index in newCh>>
  created,        \* the calls of createElm: index in newCh
  removed,        \* the vnodes removeVnodes removed: index in oldCh
  moved,          \* the elements moved with nodeOps.insertBefore
  pv              \* a call of patchVnode: its arguments and what it did

VARIABLES
  heap,           \* the objects, their properties, Observers and Deps
  hop             \* the last operation on the heap and what it notified

obs == <<heap, hop>>

VARIABLES
  nodeA, nodeB,   \* the two vnodes sameVnode is given
  same,           \* what it has returned
  rm              \* the removal of a vnode: its rm callback and the parent's children

nodes == <<nodeA, nodeB, same, rm>>

VARIABLES
  reg,            \* the number of callbacks the application has given to nextTick
  cbKind,         \* what each of them does, in the order of registration
  cbLog,          \* those that flushCallbacks has invoked, in order
  updated         \* what the updated hook of the components does

ticks == <<reg, cbKind, cbLog, updated>>

vdom == <<oldCh, newCh, removeOnly, dom, oldStartIdx, oldEndIdx, newStartIdx,
          newEndIdx, oldKeyToIdx, phase, oldCh0, patched, created, removed,
          moved, pv>>

sched == <<queue, has, circular, waiting, flushing, index>>
data == <<val, childOb, ob, arr>>
flushGhost == <<startQueue, runLog, flushRuns, flushEnq, flushChanged, flushDeps>>
tickGhost == <<tickUpd, tickCause>>
vars == <<val, childOb, ob, arr, subs, ws, targetStack, queue, has, circular,
          waiting, flushing, index, callbacks, pending, timers, pc, copies, ci, prog,
          lastRead, pruned, act, startQueue, runLog, flushRuns, flushEnq,
          flushChanged, flushDeps, tickUpd, tickCause, vdom, obs, ticks, nodes>>

\* the variables of the reactivity engine and of the scheduler
engine == <<val, childOb, ob, arr, subs, ws, targetStack, queue, has, circular,
            waiting, flushing, index, callbacks, pending, timers, pc, copies, ci, prog,
            lastRead, pruned, act, startQueue, runLog, flushRuns, flushEnq,
            flushChanged, flushDeps, tickUpd, tickCause>>

MaxWatchers == 4
WIds == 1..MaxWatchers
Zero == [i \in WIds |-> 0]

Cur ==
  [val |-> val, childOb |-> childOb, ob |-> ob, arr |-> arr, subs |-> subs,
   ws |-> ws, targetStack |-> targetStack, queue |-> queue, has |-> has,
   circular |-> circular, waiting |-> waiting, flushing |-> flushing,
   index |-> index, callbacks |-> callbacks, pending |-> pending,
   timers |-> timers,
   lastRead |-> lastRead, pruned |-> pruned, reading |-> [i \in WIds |-> {}],
   ret |-> Undef, exc |-> FALSE, brk |-> FALSE, errors |-> 0,
   gGet |-> Zero, gUpd |-> Zero, gEnq |-> Zero, gTick |-> 0, gCb |-> <<>>,
   gChanged |-> {}, gNotify |-> [d \in Deps |-> 0]]

Op(name, p, v, w) ==
  [name |-> name, p |-> p, v |-> v, w |-> w, args |-> <<>>, old |-> Undef]

Commit(s, op) ==
  /\ val' = s.val /\ childOb' = s.childOb /\ ob' = s.ob /\ arr' = s.arr
  /\ subs' = s.subs /\ ws' = s.ws /\ targetStack' = s.targetStack
  /\ queue' = s.queue /\ has' = s.has /\ circular' = s.circular
  /\ waiting' = s.waiting /\ flushing' = s.flushing /\ index' = s.index
  /\ callbacks' = s.callbacks /\ pending' = s.pending /\ timers' = s.timers
  /\ lastRead' = s.lastRead /\ pruned' = s.pruned
  /\ act' = [op |-> op, get |-> s.gGet, upd |-> s.gUpd, enq |-> s.gEnq,
             tick |-> s.gTick, cb |-> s.gCb, changed |-> s.gChanged,
             notify |-> s.gNotify, errors |-> s.errors, threw |-> s.exc]

NoAct == [op |-> Op("init", "", Undef, 0), get |-> Zero, upd |-> Zero, enq |-> Zero,
          tick |-> 0, cb |-> <<>>, changed |-> {},
          notify |-> [d \in Deps |-> 0], errors |-> 0, threw |-> FALSE]

Idle(name, p, v, w) ==
  [NoAct EXCEPT !.op = Op(name, p, v, w)]

(***************************************************************************)
(* The watchers an application creates                                     *)
(***************************************************************************)
Program(getter, cb, lazy, sync, user) ==
  [getter |-> getter, cb |-> cb, lazy |-> lazy, sync |-> sync, user |-> user]

\* a render watcher: new Watcher(vm, updateComponent, noop, ..., true)
Render(getter) == Program(getter, "noop", FALSE, FALSE, FALSE)
\* vm.$watch(expOrFn, cb)
Watch(getter, cb) == Program(getter, cb, FALSE, FALSE, TRUE)
\* vm.$watch(expOrFn, cb, {deep: true}), for a getter that returns no object
\* (traverse of a value that is no object does nothing)
WatchDeep(getter, cb) ==
  [getter |-> getter, cb |-> cb, lazy |-> FALSE, sync |-> FALSE, user |-> TRUE,
   deep |-> TRUE]
\* vm.$watch(expOrFn, cb, {sync: true})
WatchSync(getter, cb) == Program(getter, cb, FALSE, TRUE, TRUE)
\* a computed property: new Watcher(vm, getter, noop, {lazy: true})
Computed(getter) == Program(getter, "noop", TRUE, FALSE, FALSE)

\* new Watcher(vm, expOrFn, cb, options)
\* this.value = <result of get()>
storeValue(s2, w) == IF s2.exc THEN s2 ELSE [s2 EXCEPT !.ws[w].value = s2.ret]

\* this.value = this.lazy ? undefined : this.get()
firstValue(s1, w) == IF s1.ws[w].lazy THEN s1 ELSE storeValue(get(s1, w), w)

Watcher(s, p) ==
  firstValue([s EXCEPT !.ws = Append(@,
                [getter |-> p.getter, cb |-> p.cb, lazy |-> p.lazy,
                 sync |-> p.sync, user |-> p.user, deep |-> "deep" \in DOMAIN p,
                 active |-> TRUE, dirty |-> p.lazy,
                 deps |-> <<>>, newDeps |-> <<>>, depIds |-> {}, newDepIds |-> {},
                 value |-> Undef])],
             Len(s.ws) + 1)

(***************************************************************************)
(* Initial state: the data object {a: 0, b: 0, c: 0, list: [...]} has been *)
(* observed, no watcher exists yet and the scheduler is idle.              *)
(***************************************************************************)
ElemObs(items) == {items[i].n : i \in {j \in 1..Len(items) : isObject(items[j])}}

EngineInitHooks(scenes, arrays, hooks) ==
  /\ prog \in scenes
  /\ updated \in hooks
  /\ arr \in arrays
  /\ val = [p \in Props |-> IF p = "list" THEN ARR ELSE Num(0)]
  /\ childOb = [p \in Props |-> IF p = "list" THEN 0 ELSE NoOb]
  /\ ob = {0} \cup ElemObs(arr)
  /\ subs = [d \in Deps |-> <<>>]
  /\ ws = <<>>
  /\ targetStack = <<>>
  /\ queue = <<>> /\ has = {} /\ circular = Zero
  /\ waiting = FALSE /\ flushing = FALSE /\ index = 0
  /\ callbacks = <<>> /\ pending = FALSE /\ timers = 0
  /\ reg = 0 /\ cbKind = <<>> /\ cbLog = <<>>
  /\ pc = "idle" /\ copies = <<>> /\ ci = 0
  /\ lastRead = [i \in WIds |-> {}]
  /\ pruned = [i \in WIds |-> {}]
  /\ act = NoAct
  /\ startQueue = <<>> /\ runLog = <<>> /\ flushRuns = Zero /\ flushEnq = Zero
  /\ flushChanged = {} /\ flushDeps = [i \in WIds |-> {}]
  /\ tickUpd = Zero /\ tickCause = [i \in WIds |-> ""]

EngineInit(scenes, arrays) == EngineInitHooks(scenes, arrays, {"none"})

NoMap == [def |-> FALSE, map |-> <<>>]
NoPatch == [oldVnode |-> NoVnode, vnode |-> NoVnode, ownerArray |-> FALSE,
            done |-> FALSE, patchedVnode |-> NoVnode, calls |-> <<>>]

\* no patch is going on
VdomIdle ==
  /\ oldCh = <<>> /\ newCh = <<>> /\ removeOnly = FALSE /\ dom = <<>>
  /\ oldStartIdx = 0 /\ oldEndIdx = 0 /\ newStartIdx = 0 /\ newEndIdx = 0
  /\ oldKeyToIdx = NoMap /\ phase = "none" /\ oldCh0 = <<>>
  /\ patched = <<>> /\ created = <<>> /\ removed = <<>> /\ moved = <<>>
  /\ pv = NoPatch

\* the root data object has been observed: observe(data, true)
InitHeap == [asRootData(hObserve(RawHeap, Obj(HRoot))) EXCEPT !.retOb = 0]

NoHop == [name |-> "init", target |-> 0, key |-> "", index |-> 0, val |-> Undef]

\* nothing is done to the heap
\* sameVnode has not been called
NoSame == [done |-> FALSE, ret |-> FALSE]
\* no vnode is being removed
NoRm == [made |-> FALSE, listeners |-> 0, dom |-> <<>>, elm |-> 0, calls |-> 0,
         due |-> 0, later |-> 0, detached |-> 0, stray |-> 0,
         chain |-> <<>>, mods |-> <<>>]
NodesIdle == nodeA = NoVnode /\ nodeB = NoVnode /\ same = NoSame /\ rm = NoRm

ObsIdle == heap = InitHeap /\ hop = NoHop

InitWith(scenes, arrays) == EngineInit(scenes, arrays) /\ VdomIdle /\ ObsIdle /\ NodesIdle

(***************************************************************************)
(* Actions of the application (between two microtasks)                     *)
(***************************************************************************)
\* bookkeeping of the model for an action of the application
Tally(s, name) ==
  /\ tickUpd' = [i \in WIds |-> Min(tickUpd[i] + s.gUpd[i], MaxTickUpdates)]
  /\ tickCause' = [i \in WIds |-> IF i \notin has /\ i \in s.has THEN name
                                    ELSE tickCause[i]]

\* new Watcher(...): the next watcher of the application is created
NewWatcher ==
  /\ pc = "idle"
  /\ Len(ws) < Len(prog)
  /\ \E s \in {Watcher(Cur, prog[Len(ws) + 1])} :
        Commit(s, Op("NewWatcher", "", Undef, Len(ws) + 1))
  /\ UNCHANGED <<pc, copies, ci, prog, flushGhost, tickGhost>>
  /\ UNCHANGED <<vdom, obs, ticks, nodes>>

\* data[p] = v
Write(p, v) ==
  /\ pc = "idle"
  /\ \E s \in {reactiveSetter(Cur, p, v)} :
        /\ Commit(s, [Op("Write", p, v, 0) EXCEPT !.old = val[p]])
        /\ Tally(s, "Write")
  /\ UNCHANGED <<pc, copies, ci, prog, flushGhost>>
  /\ UNCHANGED <<vdom, obs, ticks, nodes>>

\* data.list[method](...args)
ArrayCall(method, args) ==
  /\ pc = "idle"
  /\ Len(original(arr, method, args)) <= MaxLen
  /\ \E s \in {mutator(Cur, method, args)} :
        /\ Commit(s, [Op(method, "list", Undef, 0) EXCEPT !.args = args])
        /\ Tally(s, method)
  /\ UNCHANGED <<pc, copies, ci, prog, flushGhost>>
  /\ UNCHANGED <<vdom, obs, ticks, nodes>>

\* vm.comp is read outside of any watcher
ReadComputed ==
  /\ pc = "idle"
  /\ ComputedWatcher(Cur) # 0
  /\ \E s \in {computedGetter(Cur)} :
        Commit(s, Op("ReadComputed", "", Undef, ComputedWatcher(Cur)))
  /\ UNCHANGED <<pc, copies, ci, prog, flushGhost, tickGhost>>
  /\ UNCHANGED <<vdom, obs, ticks, nodes>>

\* the function vm.$watch returned for watcher w is called
Teardown(w) ==
  /\ pc = "idle"
  /\ w \in 1..Len(ws)
  /\ \E s \in {teardown(Cur, w)} : Commit(s, Op("Teardown", "", Undef, w))
  /\ UNCHANGED <<pc, copies, ci, prog, flushGhost, tickGhost>>
  /\ UNCHANGED <<vdom, obs, ticks, nodes>>

(***************************************************************************)
(* The microtask: flushCallbacks and flushSchedulerQueue                   *)
(***************************************************************************)
\* flushCallbacks, up to its loop
FlushCallbacks ==
  /\ pc = "idle"
  /\ timers > 0
  /\ timers' = timers - 1
  /\ pending' = FALSE
  /\ copies' = callbacks
  /\ callbacks' = <<>>
  /\ ci' = 0
  /\ pc' = "callbacks"
  /\ act' = Idle("FlushCallbacks", "", Undef, 0)
  /\ UNCHANGED <<data, subs, ws, targetStack, sched, prog, lastRead, pruned,
                 flushGhost, tickGhost>>
  /\ UNCHANGED <<vdom, obs, ticks, nodes>>

\* copies[i]() where the callback is flushSchedulerQueue: up to its loop
FlushStart ==
  /\ pc = "callbacks"
  /\ ci < Len(copies)
  /\ copies[ci + 1] = "flushSchedulerQueue"
  /\ flushing' = TRUE
  /\ queue' = SortById(queue)
  /\ index' = 0
  /\ pc' = "flush"
  /\ act' = Idle("FlushStart", "", Undef, 0)
  /\ startQueue' = queue
  /\ runLog' = <<>>
  /\ flushRuns' = Zero
  /\ flushEnq' = Zero
  /\ flushChanged' = {}
  /\ flushDeps' = lastRead
  /\ UNCHANGED <<data, subs, ws, targetStack, has, circular, waiting, callbacks,
                 pending, timers, copies, ci, prog, lastRead, pruned, tickGhost>>
  /\ UNCHANGED <<vdom, obs, ticks, nodes>>

\* a check that aborts when the count reaches MAX_UPDATE_COUNT
circularCheck_AtThreshold(s1, id) ==
  IF s1.exc THEN s1
  ELSE IF id \in s1.has
  THEN IF s1.circular[id] + 1 >= MAX_UPDATE_COUNT
       THEN [s1 EXCEPT !.circular[id] = @ + 1, !.brk = TRUE]
       ELSE [s1 EXCEPT !.circular[id] = @ + 1, !.index = @ + 1]
  ELSE [s1 EXCEPT !.index = @ + 1]

\* one iteration of the loop of flushSchedulerQueue
\* the loop body after watcher.run(): the check for circular updates
circularCheck(s1, id) ==
  IF s1.exc THEN s1
  ELSE IF id \in s1.has
  THEN IF s1.circular[id] + 1 > MAX_UPDATE_COUNT
       THEN [s1 EXCEPT !.circular[id] = @ + 1, !.brk = TRUE]
       ELSE [s1 EXCEPT !.circular[id] = @ + 1, !.index = @ + 1]
  ELSE [s1 EXCEPT !.index = @ + 1]

flushIteration(s, id) == circularCheck(run([s EXCEPT !.has = @ \ {id}], id), id)

FlushStep ==
  /\ pc = "flush"
  /\ index < Len(queue)
  /\ \E s \in {flushIteration(Cur, queue[index + 1])} :
        /\ Commit(s, Op("FlushStep", "", Undef, queue[index + 1]))
        /\ pc' = IF s.exc THEN "callbacks" ELSE IF s.brk THEN "flushEnd" ELSE "flush"
        /\ ci' = IF s.exc THEN ci + 1 ELSE ci
        /\ runLog' = Append(runLog, queue[index + 1])
        /\ flushRuns' = [i \in WIds |-> flushRuns[i] + s.gGet[i]]
        /\ flushEnq' = [i \in WIds |-> flushEnq[i] + s.gEnq[i]]
        /\ flushChanged' = flushChanged \cup s.gChanged
        /\ flushDeps' = [i \in WIds |-> flushDeps[i] \cup s.lastRead[i]]
  /\ UNCHANGED <<copies, prog, startQueue, tickGhost>>
  /\ UNCHANGED <<vdom, obs, ticks, nodes>>

\* flushSchedulerQueue after its loop: resetSchedulerState and the hooks
FlushEnd ==
  /\ \/ pc = "flush" /\ index >= Len(queue)
     \/ pc = "flushEnd"
  /\ \E s \in {flushEnd(Cur, updated)} :
        /\ Commit(s, Op("FlushEnd", "", Undef, 0))
        /\ tickUpd' = [i \in WIds |-> Min(s.gUpd[i], MaxTickUpdates)]
        /\ tickCause' = [i \in WIds |-> IF i \in s.has THEN "FlushEnd" ELSE ""]
  /\ pc' = "callbacks"
  /\ ci' = ci + 1
  /\ UNCHANGED <<copies, prog, flushGhost>>
  /\ UNCHANGED <<vdom, obs, ticks, nodes>>

\* flushCallbacks: its loop has ended
CallbacksDone ==
  /\ pc = "callbacks"
  /\ ci >= Len(copies)
  /\ pc' = "idle"
  /\ copies' = <<>>
  /\ ci' = 0
  /\ act' = Idle("CallbacksDone", "", Undef, 0)
  /\ startQueue' = <<>> /\ runLog' = <<>> /\ flushRuns' = Zero /\ flushEnq' = Zero
  /\ flushChanged' = {} /\ flushDeps' = [i \in WIds |-> {}]
  /\ UNCHANGED <<data, subs, ws, targetStack, sched, callbacks, pending, timers,
                 prog, lastRead, pruned, tickGhost>>
  /\ UNCHANGED <<vdom, obs, ticks, nodes>>

Microtask == FlushCallbacks \/ FlushStart \/ FlushStep \/ FlushEnd \/ CallbacksDone

(***************************************************************************)
(* Specifications                                                          *)
(***************************************************************************)
PrimVals == {Num(0), Num(1)}
AVals == {Num(0), Num(1), NaNV, Obj(1), Obj(2)}

Scenes ==
  { <<Watch("a", "record"), Render("ab"), Watch("branch", "record")>>,
    <<Render("ab"), Watch("c", "setB"), Watch("b", "record")>>,
    <<Computed("branch"), Render("comp"), Watch("a", "record")>>,
    <<WatchSync("c", "setB"), Watch("b", "record"), Render("ab")>> }

Init == InitWith(Scenes, {<<>>})

Next ==
  \/ NewWatcher
  \/ \E p \in {"a", "b", "c"}, v \in PrimVals : Write(p, v)
  \/ ReadComputed
  \/ Microtask

Spec == Init /\ [][Next]_vars

\* property a takes numbers, NaN and two distinct objects
ScenesEq ==
  { <<Watch("a", "record"), Render("ab"), Computed("a")>>,
    <<Render("comp"), WatchSync("a", "record"), Computed("a")>> }

InitEq == InitWith(ScenesEq, {<<>>})

NextEq ==
  \/ NewWatcher
  \/ \E v \in AVals : Write("a", v)
  \/ \E v \in PrimVals : Write("b", v)
  \/ ReadComputed
  \/ Microtask

SpecEq == InitEq /\ [][NextEq]_vars

\* the array data.list and its mutators
ScenesArr ==
  { <<Watch("len", "record")>>, <<Render("len")>> }

Elems == {Num(1), Obj(1)}

SpliceArgs ==
  { <<Num(0), Num(1)>>, <<Num(1), Num(0), Obj(1)>>, <<Num(1), Num(1), Obj(1)>> }

InitArr == InitWith(ScenesArr, {<<>>, <<Num(2), Num(1)>>})

NextArr ==
  \/ NewWatcher
  \/ \E x \in Elems : ArrayCall("push", <<x>>)
  \/ \E x \in Elems : ArrayCall("unshift", <<x>>)
  \/ \E m \in {"pop", "shift", "sort", "reverse"} : ArrayCall(m, <<>>)
  \/ \E a \in SpliceArgs : ArrayCall("splice", a)
  \/ Microtask

SpecArr == InitArr /\ [][NextArr]_vars

\* a watcher whose callback writes its own dependency on every run
ScenesCycle ==
  { <<Render("ab"), Watch("a", "flipA")>>,
    <<Watch("a", "flipA"), Watch("b", "record")>> }

InitCycle == InitWith(ScenesCycle, {<<>>})

NextCycle ==
  \/ NewWatcher
  \/ \E p \in {"a", "b"}, v \in PrimVals : Write(p, v)
  \/ Microtask

SpecCycle == InitCycle /\ [][NextCycle]_vars

\* two watchers, the callback of each writing the property the other reads
ScenesMutual == { <<Watch("a", "flipB"), Watch("b", "flipA")>> }

InitMutual == InitWith(ScenesMutual, {<<>>})

\* the runs of one flush that are followed
MaxFlushRuns == 2 * MAX_UPDATE_COUNT + 10

FlushStepMutual == Len(runLog) < MaxFlushRuns /\ FlushStep

NextMutual ==
  \/ NewWatcher
  \/ \E p \in {"a", "b"}, v \in PrimVals : Write(p, v)
  \/ FlushCallbacks
  \/ FlushStart
  \/ FlushStepMutual
  \/ FlushEnd
  \/ CallbacksDone

SpecMutual == InitMutual /\ [][NextMutual]_vars

\* components whose updated hook writes a property
ScenesHook ==
  { <<Render("a"), Watch("b", "record")>>,
    <<Watch("a", "record"), Render("ab")>> }

InitHook ==
  /\ EngineInitHooks(ScenesHook, {<<>>}, {"copyA", "flipB", "throw"})
  /\ VdomIdle /\ ObsIdle /\ NodesIdle

SpecHook == InitHook /\ [][NextCycle]_vars

\* watchers whose getter or callback throws: user watchers in the first
\* application, a render watcher in the second
ScenesErr ==
  { <<Watch("boom", "record"), Render("ab"), Watch("a", "throw")>>,
    <<Watch("a", "record"), Render("boom"), Watch("b", "record")>> }

InitErr == InitWith(ScenesErr, {<<>>})

NextErr ==
  \/ NewWatcher
  \/ \E p \in {"a", "b"}, v \in PrimVals : Write(p, v)
  \/ Microtask

SpecErr == InitErr /\ [][NextErr]_vars

\* watchers made without user = true that throw: a render watcher from its
\* getter, and new Watcher(vm, "a", cb) from its callback
ScenesStuck ==
  { <<Watch("a", "record"), Render("boom"), Watch("b", "record")>>,
    <<Watch("a", "record"), Program("a", "throw", FALSE, FALSE, FALSE),
      Watch("b", "record")>> }

InitStuck == InitWith(ScenesStuck, {<<>>})

SpecStuck == InitStuck /\ [][NextErr]_vars

\* user watchers whose getter reads a, throws when a is 1 and reads b
\* otherwise: queued, deep and sync
ScenesThrow ==
  { <<Watch("boomB", "record"), Watch("b", "record")>>,
    <<WatchDeep("boomB", "record"), Watch("b", "record")>>,
    <<WatchSync("boomB", "record"), Watch("b", "record")>> }

InitThrow == InitWith(ScenesThrow, {<<>>})

SpecThrow == InitThrow /\ [][NextErr]_vars

\* getters that read a computed property, that throw, and a getter of a
\* sync watcher that writes a property it has read
ScenesSub ==
  { <<Computed("branch"), Render("comp"), Watch("boom", "record")>>,
    <<WatchSync("bump", "record"), Watch("a", "record")>> }

InitSub == InitWith(ScenesSub, {<<>>})

NextSub ==
  \/ NewWatcher
  \/ \E p \in {"a", "b", "c"}, v \in PrimVals : Write(p, v)
  \/ ReadComputed
  \/ Microtask

SpecSub == InitSub /\ [][NextSub]_vars

\* evaluations inside evaluations: a render that reads a computed property
\* whose getter throws or branches, and the getter of a watcher whose write
\* runs a sync watcher
ScenesNest ==
  { <<Computed("boom"), Render("comp")>>,
    <<Computed("branch"), Render("comp")>>,
    <<WatchSync("a", "record"), Watch("bump", "record")>> }

InitNest == InitWith(ScenesNest, {<<>>})

SpecNest == InitNest /\ [][NextSub]_vars

\* watchers that read a computed property: a render, and a sync watcher
\* whose getter reads a before it reads the computed property
ScenesComp ==
  { <<Computed("branch"), Render("comp")>>,
    <<Computed("branch"), WatchSync("aComp", "record")>> }

InitComp == InitWith(ScenesComp, {<<>>})

SpecComp == InitComp /\ [][NextSub]_vars

\* the same, the watchers being queued ones
ScenesCompQueued ==
  { <<Computed("branch"), Render("comp")>>,
    <<Computed("branch"), Watch("aComp", "record")>> }

InitCompQueued == InitWith(ScenesCompQueued, {<<>>})

SpecCompQueued == InitCompQueued /\ [][NextSub]_vars

\* a lazy, a queued and a sync watcher side by side
ScenesModes ==
  { <<Computed("branch"), Render("comp"), WatchSync("a", "record")>>,
    <<WatchSync("a", "record"), Watch("b", "record"), Computed("branch")>> }

InitModes == InitWith(ScenesModes, {<<>>})

SpecModes == InitModes /\ [][NextSub]_vars

\* watches that are cancelled: between two ticks, by their own callback, and
\* by their own getter
ScenesTear ==
  { <<Watch("a", "stop"), Render("ab")>>,
    <<Watch("quit", "record"), Watch("b", "record")>> }

InitTear == InitWith(ScenesTear, {<<>>})

NextTear ==
  \/ NewWatcher
  \/ \E p \in {"a", "b", "c"}, v \in PrimVals : Write(p, v)
  \/ \E w \in WIds : Teardown(w)
  \/ Microtask

SpecTear == InitTear /\ [][NextTear]_vars

\* computed properties that are read, whose properties are written, and
\* whose watchers are torn down with the component
ScenesCache ==
  { <<Computed("branch"), Render("comp")>>,
    <<Computed("boom"), Watch("comp", "record")>> }

InitCache == InitWith(ScenesCache, {<<>>})

\* vm.$destroy() once the watchers of the component are made
Destroy ==
  /\ pc = "idle"
  /\ Len(ws) = Len(prog) /\ \E w \in 1..Len(ws) : ws[w].active
  /\ \E s \in {destroy(Cur, Len(ws))} : Commit(s, Op("Destroy", "", Undef, 0))
  /\ UNCHANGED <<pc, copies, ci, prog, flushGhost, tickGhost>>
  /\ UNCHANGED <<vdom, obs, ticks, nodes>>

NextCache ==
  \/ NewWatcher
  \/ \E p \in {"a", "b", "c"}, v \in PrimVals : Write(p, v)
  \/ ReadComputed
  \/ Destroy
  \/ Microtask

SpecCache == InitCache /\ [][NextCache]_vars

\* a computed property and a render in which a child component is made
ScenesMount == { <<Computed("branch"), Render(g)>> : g \in HookGetters }

InitMount == InitWith(ScenesMount, {<<>>})

SpecMount == InitMount /\ [][NextSub]_vars

(***************************************************************************)
(* sameVnode                                                               *)
(***************************************************************************)
\* the vnodes sameVnode is given: text and comment nodes, <div> and <input>
\* elements, with or without data, attrs and a type attribute, with or
\* without a key, plain or made for an async component (the placeholder of
\* the unresolved component, or the vnode of the resolved one)
SameShapes ==
  {[tag |-> "", isComment |-> c, data |-> FALSE, attrs |-> "undef"] : c \in BOOLEAN}
    \cup {[tag |-> "", isComment |-> TRUE, data |-> TRUE, attrs |-> "undef"]}
    \cup {[tag |-> "div", isComment |-> FALSE, data |-> d, attrs |-> "undef"] : d \in BOOLEAN}
    \cup {[tag |-> "input", isComment |-> FALSE, data |-> FALSE, attrs |-> "undef"]}
    \cup {[tag |-> "input", isComment |-> FALSE, data |-> TRUE, attrs |-> at] :
            at \in {"undef", "notype", "text", "number", "checkbox"}}

SameNodes ==
  {[VNode(1, k, sh.tag, 0) EXCEPT !.isComment = sh.isComment, !.data = sh.data,
                                  !.attrs = sh.attrs, !.asyncFactory = f[1],
                                  !.isAsyncPlaceholder = f[2]] :
     k \in {0, 1}, sh \in SameShapes,
     f \in {<<0, FALSE>>, <<1, FALSE>>, <<1, TRUE>>, <<2, FALSE>>, <<2, TRUE>>}}

InitSame ==
  /\ EngineInit({<<>>}, {<<>>}) /\ VdomIdle /\ ObsIdle
  /\ nodeA \in SameNodes /\ nodeB \in SameNodes /\ same = NoSame /\ rm = NoRm

\* sameVnode(nodeA, nodeB) is called
SameVnode ==
  /\ ~same.done
  /\ same' = [done |-> TRUE, ret |-> sameVnode(nodeA, nodeB)]
  /\ UNCHANGED <<engine, vdom, obs, ticks, nodeA, nodeB, rm>>

SpecSame == InitSame /\ [][SameVnode]_vars

(***************************************************************************)
(* Removal of a vnode that has data: removeAndInvokeRemoveHook.  The       *)
(* vnode's element is a child of its parent until the rm callback has been *)
(* called by every remove hook of the modules and by the vnode's own       *)
(* remove hook (or by removeAndInvokeRemoveHook itself when it has none),  *)
(* for the vnode and for every component root vnode nested in it.          *)
(***************************************************************************)
MaxChain == 2    \* vnodes of a nested component-root chain
MaxMods == 2     \* remove hooks of the modules (cbs.remove)
MaxStray == 1    \* calls of rm by a hook that had called it already

\* what a remove hook does with rm: calls it at once, or keeps it and calls
\* it later (a leave transition); "none" is a vnode without data.hook.remove
ModKinds == {"sync", "defer"}
HookKinds == {"none", "sync", "defer"}

\* the element removed and its siblings
RmSiblings == <<6, 7, 8>>
RmElm == RmSiblings[2]

\* removeNode(el): the element is taken out of its parent, if it has one
removeElm(r, el) ==
  IF IndexOf(r.dom, el) # 0
  THEN [r EXCEPT !.dom = removeChild(@, el), !.detached = @ + 1]
  ELSE r

\* createRmCb(childElm, listeners): remove.listeners = listeners
createRmCb(r, childElm, listeners) ==
  [r EXCEPT !.made = TRUE, !.elm = childElm, !.listeners = listeners]

\* rm(): if (--remove.listeners === 0) removeNode(childElm)
remove(r) ==
  LET r1 == [r EXCEPT !.listeners = @ - 1, !.calls = @ + 1]
  IN IF r1.listeners = 0 THEN removeElm(r1, r1.elm) ELSE r1

\* a remove hook is called with rm
removeHook(r, kind) ==
  IF kind = "sync" THEN remove(r) ELSE [r EXCEPT !.later = @ + 1]

\* for (i = 0; i < cbs.remove.length; ++i) cbs.remove[i](vnode, rm)
RECURSIVE invokeModules(_, _, _)
invokeModules(r, mods, i) ==
  IF i > Len(mods) THEN r
  ELSE invokeModules(removeHook(r, mods[i]), mods, i + 1)

\* rm.listeners = listeners: the nested vnode's listeners replace the count
addListeners_Overwrite(r, listeners) == [r EXCEPT !.listeners = listeners]

\* rm.listeners += listeners
addListeners(r, listeners) == [r EXCEPT !.listeners = @ + listeners]

\* removeAndInvokeRemoveHook(vnode, rm) of the i-th vnode of the chain, each
\* with data; chain[i] is its data.hook.remove
RECURSIVE removeAndInvokeRemoveHook(_, _, _, _)
removeAndInvokeRemoveHook(r, chain, i, mods) ==
  LET listeners == Len(mods) + 1
      r1 == IF r.made THEN addListeners(r, listeners)
            ELSE createRmCb(r, RmElm, listeners)
      r2 == IF i < Len(chain)
            THEN removeAndInvokeRemoveHook(r1, chain, i + 1, mods)
            ELSE r1
      r3 == invokeModules(r2, mods, 1)
  IN IF chain[i] # "none" THEN removeHook(r3, chain[i]) ELSE remove(r3)

SeqsUpTo(S, lo, n) == UNION {[1..k -> S] : k \in lo..n}

InitRemove ==
  /\ EngineInit({<<>>}, {<<>>}) /\ VdomIdle /\ ObsIdle
  /\ nodeA = NoVnode /\ nodeB = NoVnode /\ same = NoSame
  /\ rm = [NoRm EXCEPT !.dom = RmSiblings]

\* removeVnodes reaches a vnode with data: removeAndInvokeRemoveHook(ch)
RemoveVnode ==
  /\ ~rm.made
  /\ \E chain \in SeqsUpTo(HookKinds, 1, MaxChain), mods \in SeqsUpTo(ModKinds, 0, MaxMods) :
       rm' = [removeAndInvokeRemoveHook(rm, chain, 1, mods)
                EXCEPT !.due = Len(chain) * (Len(mods) + 1),
                       !.chain = chain, !.mods = mods]
  /\ UNCHANGED <<engine, vdom, obs, ticks, nodeA, nodeB, same>>

\* a hook that kept rm calls it
RmLater ==
  /\ rm.made /\ rm.later > 0
  /\ rm' = [remove(rm) EXCEPT !.later = @ - 1]
  /\ UNCHANGED <<engine, vdom, obs, ticks, nodeA, nodeB, same>>

\* a hook that has called rm calls it once more
RmStray ==
  /\ rm.made /\ rm.stray < MaxStray
  /\ rm' = [remove(rm) EXCEPT !.stray = @ + 1]
  /\ UNCHANGED <<engine, vdom, obs, ticks, nodeA, nodeB, same>>

NextRemove == RemoveVnode \/ RmLater \/ RmStray

SpecRemove == InitRemove /\ [][NextRemove]_vars

(***************************************************************************)
(* Callbacks the application gives to nextTick                             *)
(***************************************************************************)
MaxCallbacks == 3

\* the wrappers nextTick pushes, named in the order of registration
CbName == <<"cb1", "cb2", "cb3", "cb4", "cb5">>
CbId(name) == CHOOSE i \in 1..Len(CbName) : CbName[i] = name

\* what a callback does: nothing, throw, call nextTick with a callback of
\* kind "late" that does nothing, or write property a
CbKinds == {"noop", "throw", "again", "write"}

\* cb.call(ctx)
tickCallback(s, kind, more) ==
  CASE kind = "throw" -> [s EXCEPT !.exc = TRUE]
    [] kind = "again" /\ more -> nextTick(s, CbName[reg + 1])
    [] kind = "write" ->
         reactiveSetter(s, "a", IF s.val["a"] = Num(0) THEN Num(1) ELSE Num(0))
    [] OTHER -> s

\* the wrapper: try { cb.call(ctx) } catch (e) { handleError(e, ctx, "nextTick") }
tickWrapper(s, kind, more) == handled(tickCallback(s, kind, more))

\* nextTick(cb) is called by the application
CallNextTick(kind) ==
  /\ pc = "idle"
  /\ reg < MaxCallbacks
  /\ \E s \in {nextTick(Cur, CbName[reg + 1])} :
        Commit(s, Op("nextTick", "", Undef, reg + 1))
  /\ reg' = reg + 1
  /\ cbKind' = Append(cbKind, kind)
  /\ UNCHANGED <<pc, copies, ci, prog, flushGhost, tickGhost, cbLog, updated>>
  /\ UNCHANGED <<vdom, obs, nodes>>

\* copies[i]() where the callback is one of the application
CallbackStep ==
  /\ pc = "callbacks"
  /\ ci < Len(copies)
  /\ copies[ci + 1] # "flushSchedulerQueue"
  /\ \E id \in {CbId(copies[ci + 1])} :
       \E more \in {cbKind[id] = "again" /\ reg < MaxCallbacks} :
         \E s \in {tickWrapper(Cur, cbKind[id], more)} :
           /\ Commit(s, Op("CallbackStep", "", Undef, id))
           /\ Tally(s, "CallbackStep")
           /\ cbLog' = Append(cbLog, id)
           /\ reg' = IF more THEN reg + 1 ELSE reg
           /\ cbKind' = IF more THEN Append(cbKind, "late") ELSE cbKind
  /\ ci' = ci + 1
  /\ UNCHANGED <<pc, copies, prog, flushGhost, updated>>
  /\ UNCHANGED <<vdom, obs, nodes>>

ScenesTick == { <<Watch("a", "record")>> }

InitTick == InitWith(ScenesTick, {<<>>})

NextTick ==
  \/ NewWatcher
  \/ \E v \in PrimVals : Write("a", v)
  \/ \E kind \in CbKinds : CallNextTick(kind)
  \/ CallbackStep
  \/ Microtask

SpecTick == InitTick /\ [][NextTick]_vars

(***************************************************************************)
(* Operations on the heap                                                  *)
(***************************************************************************)
\* what an operation starts from
HeapCur == [heap EXCEPT !.notified = <<>>, !.retOb = 0, !.ret = Undef]

HOp(name, target, key, v) ==
  [name |-> name, target |-> target, key |-> key, index |-> 0, val |-> v]

\* what the properties of the objects and the elements of the array take:
\* the root object refers to the plain object and to the array, the array
\* to the plain object
HVals(n) ==
  CASE n = HRoot -> {Num(0), Num(1), Obj(2), Obj(HArray)}
    [] n = HArray -> {Num(0), Obj(2)}
    [] OTHER -> {Num(0), Num(1)}

\* observe(v)
Observe(v) ==
  /\ heap' = hObserve(HeapCur, v)
  /\ hop' = HOp("observe", v.n, "", v)
  /\ UNCHANGED <<engine, vdom, ticks, nodes>>

\* Vue.set(target, key, val) for an object
Set(target, key, v) ==
  /\ target # HArray
  /\ heap' = set(HeapCur, target, key, v)
  /\ hop' = HOp("set", target, key, v)
  /\ UNCHANGED <<engine, vdom, ticks, nodes>>

\* Vue.set(array, index, val)
SetIndex(i, v) ==
  /\ i <= Len(heap.items)
  /\ heap' = set(HeapCur, HArray, i, v)
  /\ hop' = [HOp("set", HArray, "", v) EXCEPT !.index = i]
  /\ UNCHANGED <<engine, vdom, ticks, nodes>>

\* target[key] = val
Assign(target, key, v) ==
  /\ target # HArray
  /\ heap' = assign(HeapCur, target, key, v)
  /\ hop' = HOp("assign", target, key, v)
  /\ UNCHANGED <<engine, vdom, ticks, nodes>>

\* array.push(v), array.pop()
HArrayCall(method, args) ==
  /\ Len(original(heap.items, method, args)) <= MaxItems
  /\ heap' = hMutator(HeapCur, method, args)
  /\ hop' = HOp(method, HArray, "", Undef)
  /\ UNCHANGED <<engine, vdom, ticks, nodes>>

InitObs == EngineInit({<<>>}, {<<>>}) /\ VdomIdle /\ ObsIdle /\ NodesIdle

NextObs ==
  \/ \E v \in {Obj(2), Obj(HArray)} : Observe(v)
  \/ \E target \in HObjs, key \in HKeys : \E v \in HVals(target) : Set(target, key, v)
  \/ \E i \in 0..(MaxItems - 1), v \in HVals(HArray) : SetIndex(i, v)
  \/ \E target \in HObjs, key \in HKeys : \E v \in HVals(target) : Assign(target, key, v)
  \/ \E v \in HVals(HArray) : HArrayCall("push", <<v>>)
  \/ HArrayCall("pop", <<>>)

SpecObs == InitObs /\ [][NextObs]_vars

(***************************************************************************)
(* set and del on root data, on a Vue instance and on other targets.  The  *)
(* root data object starts without the key y, or with it; object 2 is a    *)
(* plain object or a Vue instance; the array starts with one element.      *)
(***************************************************************************)
MaxDeps == 6     \* Deps made before the last del

RootHeaps ==
  {[RawHeap EXCEPT !.props[HRoot]["y"] = y, !.isVue = vm, !.items = <<Num(0)>>] :
     y \in {NoProp, Plain(Num(0))}, vm \in {{}, {2}}}

InitDel ==
  /\ EngineInit({<<>>}, {<<>>}) /\ VdomIdle /\ NodesIdle
  /\ heap \in {[asRootData(hObserve(r, Obj(HRoot))) EXCEPT !.retOb = 0] : r \in RootHeaps}
  /\ hop = NoHop

\* Vue.delete(target, key) for an object
Del(target, key) ==
  /\ target # HArray /\ heap.nDeps < MaxDeps
  /\ heap' = del(HeapCur, target, key)
  /\ hop' = HOp("del", target, key, Undef)
  /\ UNCHANGED <<engine, vdom, ticks, nodes>>

\* Vue.delete(array, index)
DelIndex(i) ==
  /\ heap.nDeps < MaxDeps
  /\ heap' = del(HeapCur, HArray, i)
  /\ hop' = [HOp("del", HArray, "", Undef) EXCEPT !.index = i]
  /\ UNCHANGED <<engine, vdom, ticks, nodes>>

NextDel ==
  \/ \E v \in {Obj(2), Obj(HArray)} : Observe(v)
  \/ \E target \in HObjs, key \in HKeys : \E v \in {Num(1), Obj(HArray)} : Set(target, key, v)
  \/ \E target \in HObjs, key \in HKeys : Del(target, key)
  \/ \E i \in 0..MaxItems : DelIndex(i)

SpecDel == InitDel /\ [][NextDel]_vars

(***************************************************************************)
(* A patch of the children of one element                                  *)
(***************************************************************************)
MaxCh == 4

Keys == 1..(MaxCh + 1)

\* the lists of distinct keys
KeySeqs ==
  UNION { {ks \in [1..n -> Keys] : \A i, j \in 1..n : i # j => ks[i] # ks[j]} :
          n \in 0..MaxCh }

\* the children of the previous render, their keys named in their order:
\* child i has key i and is rendered as element i
OldLists ==
  { [i \in 1..n |-> VNode(i, i, "div", i)] : n \in 0..MaxCh }

\* the children of the new render: fresh vnodes with any distinct keys, of
\* which at most one (the one with key span) is a <span>
NewLists ==
  { [i \in 1..Len(ks) |->
       VNode(MaxCh + i, ks[i], IF ks[i] = span THEN "span" ELSE "div", 0)] :
    ks \in KeySeqs, span \in {0} \cup Keys }

Elms(ch) == [i \in 1..Len(ch) |-> ch[i].elm]

DiffCur ==
  [oldCh |-> oldCh, newCh |-> newCh, removeOnly |-> removeOnly, dom |-> dom,
   oldStartIdx |-> oldStartIdx, oldEndIdx |-> oldEndIdx,
   newStartIdx |-> newStartIdx, newEndIdx |-> newEndIdx,
   oldKeyToIdx |-> oldKeyToIdx, patched |-> patched, created |-> created,
   removed |-> removed, moved |-> moved]

DiffCommit(d) ==
  /\ oldCh' = d.oldCh /\ newCh' = d.newCh /\ dom' = d.dom
  /\ oldStartIdx' = d.oldStartIdx /\ oldEndIdx' = d.oldEndIdx
  /\ newStartIdx' = d.newStartIdx /\ newEndIdx' = d.newEndIdx
  /\ oldKeyToIdx' = d.oldKeyToIdx /\ patched' = d.patched
  /\ created' = d.created /\ removed' = d.removed /\ moved' = d.moved
  /\ UNCHANGED <<removeOnly, oldCh0, pv, engine, obs, ticks, nodes>>

\* the state in which updateChildren(parentElm, oldCh, newCh, queue,
\* removeOnly) is about to be called
InitDiff ==
  /\ EngineInit({<<>>}, {<<>>})
  /\ ObsIdle /\ NodesIdle
  /\ oldCh \in OldLists /\ newCh \in NewLists /\ removeOnly \in BOOLEAN
  /\ dom = Elms(oldCh)
  /\ oldStartIdx = 0 /\ oldEndIdx = 0 /\ newStartIdx = 0 /\ newEndIdx = 0
  /\ oldKeyToIdx = NoMap /\ phase = "start" /\ oldCh0 = oldCh
  /\ patched = <<>> /\ created = <<>> /\ removed = <<>> /\ moved = <<>>
  /\ pv = NoPatch

\* updateChildren up to its loop
UpdateChildrenStart ==
  /\ phase = "start"
  /\ phase' = "loop"
  /\ oldStartIdx' = 0 /\ newStartIdx' = 0
  /\ oldEndIdx' = Len(oldCh) - 1 /\ newEndIdx' = Len(newCh) - 1
  /\ UNCHANGED <<oldCh, newCh, removeOnly, dom, oldKeyToIdx, oldCh0, patched,
                 created, removed, moved, pv, engine, obs, ticks, nodes>>

\* one iteration of the loop
UpdateChildrenStep ==
  /\ phase = "loop"
  /\ loopCondition(DiffCur)
  /\ DiffCommit(loopStep(DiffCur))
  /\ UNCHANGED phase

\* the loop has ended: addVnodes or removeVnodes
UpdateChildrenEnd ==
  /\ phase = "loop"
  /\ ~loopCondition(DiffCur)
  /\ DiffCommit(afterLoop(DiffCur))
  /\ phase' = "done"

NextDiff == UpdateChildrenStart \/ UpdateChildrenStep \/ UpdateChildrenEnd

SpecDiff == InitDiff /\ [][NextDiff]_vars

(***************************************************************************)
(* A call of patchVnode                                                    *)
(***************************************************************************)
\* the vnodes that have been rendered as element 1
PatchedOld ==
  { [VNode(1, 1, tag, 1) EXCEPT !.children = ch, !.text = text,
                                 !.isStatic = st, !.data = hasData] :
    tag \in {"div", ""}, ch \in {0, 1}, text \in {"", "x"},
    st \in BOOLEAN, hasData \in BOOLEAN }

\* the other vnodes that are the same vnode as old by sameVnode: fresh or
\* already rendered as element 2, with no children, with the children array
\* of old (1) or with another one (2)
PatchedNew(old) ==
  { [VNode(2, 1, old.tag, elm) EXCEPT !.children = ch, !.text = text,
                                       !.isStatic = st, !.isOnce = once,
                                       !.data = old.data] :
    elm \in {0, 2}, ch \in {0, 1, 2}, text \in {"", "x", "y"},
    st \in BOOLEAN, once \in BOOLEAN }

InitPatch ==
  /\ EngineInit({<<>>}, {<<>>})
  /\ ObsIdle /\ NodesIdle
  /\ oldCh = <<>> /\ newCh = <<>> /\ removeOnly = FALSE /\ dom = <<>>
  /\ oldStartIdx = 0 /\ oldEndIdx = 0 /\ newStartIdx = 0 /\ newEndIdx = 0
  /\ oldKeyToIdx = NoMap /\ phase = "none" /\ oldCh0 = <<>>
  /\ patched = <<>> /\ created = <<>> /\ removed = <<>> /\ moved = <<>>
  /\ \E old \in PatchedOld, owner \in BOOLEAN :
       \E vnode \in {old} \cup PatchedNew(old) :
         pv = [NoPatch EXCEPT !.oldVnode = old, !.vnode = vnode,
                              !.ownerArray = owner]

\* patchVnode(oldVnode, vnode, insertedVnodeQueue, ownerArray, index)
PatchVnode ==
  /\ ~pv.done
  /\ pv' = [pv EXCEPT !.done = TRUE,
                      !.patchedVnode =
                         patchVnode(pv.oldVnode, pv.vnode, pv.ownerArray).vnode,
                      !.calls = patchVnode(pv.oldVnode, pv.vnode, pv.ownerArray).calls]
  /\ UNCHANGED <<oldCh, newCh, removeOnly, dom, oldStartIdx, oldEndIdx,
                 newStartIdx, newEndIdx, oldKeyToIdx, phase, oldCh0, patched,
                 created, removed, moved, engine, obs, ticks, nodes>>

NextPatch == PatchVnode

SpecPatch == InitPatch /\ [][NextPatch]_vars

TypeOK == pc \in {"idle", "callbacks", "flush", "flushEnd"}

(***************************************************************************)
(* Properties                                                              *)
(***************************************************************************)
Created == 1..Len(ws)
Queueable(w) == ws[w].active /\ ~ws[w].lazy /\ ~ws[w].sync
Pending(q, h, w) == w \in Range(q) /\ w \in h
Count(q, x) == Cardinality({i \in 1..Len(q) : q[i] = x})
CbCalls(w) == SelectSeq(act.cb, LAMBDA e : e[1] = w)

\* C1 Dependency correctness: a write that changes properties leaves every
\* active, non-lazy, non-sync watcher whose last completed get() read one of
\* them (directly or through a computed) pending in the queue; a watcher
\* whose last get() read none of them is not enqueued by the write and is
\* pending after it exactly if it was pending before.
C1_DependencyCorrectness ==
  [][ (act'.op.name = "Write" /\ act'.changed # {}) =>
        \A w \in Created :
          Queueable(w) =>
            IF lastRead[w] \cap act'.changed # {}
            THEN Pending(queue', has', w)
            ELSE /\ act'.enq[w] = 0
                 /\ Pending(queue', has', w) = Pending(queue, has, w) ]_vars

C1_Witness ==
  /\ act.op.name = "Write"
  /\ act.changed # {}
  /\ \E w1, w2 \in Created :
       /\ Queueable(w1) /\ Queueable(w2)
       /\ lastRead[w1] \cap act.changed # {}
       /\ act.enq[w1] = 1 /\ Pending(queue, has, w1)
       /\ lastRead[w2] # {} /\ lastRead[w2] \cap act.changed = {}
       /\ ~Pending(queue, has, w2)

\* C2 Subscription pruning: a watcher whose previous get() read property p
\* and whose last get() read q and not p is not in p's subscriber list and is
\* in q's; a write that changes p and nothing the watcher reads does not call
\* its update() nor enqueue it, and a write that changes q leaves it pending.
C2_SubscriptionPruning ==
  [][ \A w \in Created : \A p \in pruned[w] : \A q \in lastRead[w] :
        (Queueable(w) /\ pc = "idle") =>
          /\ w \notin Range(subs[p])
          /\ w \in Range(subs[q])
          /\ (act'.op.name = "Write" /\ act'.changed # {}
                /\ act'.changed \cap lastRead[w] = {})
               => (act'.upd[w] = 0 /\ act'.enq[w] = 0
                   /\ Pending(queue', has', w) = Pending(queue, has, w))
          /\ (act'.op.name = "Write" /\ q \in act'.changed)
               => Pending(queue', has', w) ]_vars

C2_Witness ==
  /\ act.op.name = "Write"
  /\ act.changed = {"a"}
  /\ \E w \in Created :
       /\ Queueable(w)
       /\ "a" \in pruned[w] /\ "b" \in lastRead[w]
       /\ ~Pending(queue, has, w)

\* C3 Batching: whatever the number of update() calls a watcher received
\* before the flush, it occupies exactly one queue position, at most one
\* flushSchedulerQueue callback is handed to nextTick per enqueue and exactly
\* one is outstanding while watchers wait, and when the loop of the flush
\* ends a watcher that was queued at its start, none of whose dependencies
\* was written during the flush, has run its getter exactly once.
C3_Batching ==
  /\ \A w \in Created : tickUpd[w] >= 1 /\ Queueable(w) /\ pc = "idle"
        => Count(queue, w) = 1
  /\ act.tick <= 1
  /\ (pc = "idle" /\ queue # <<>>) => (Count(callbacks, "flushSchedulerQueue") = 1 /\ pending)
  /\ (pc = "flush" /\ index >= Len(queue)) =>
        \A w \in Range(startQueue) :
          (ws[w].active /\ flushChanged \cap flushDeps[w] = {}) => flushRuns[w] = 1

C3_Witness ==
  /\ pc = "flush" /\ index >= Len(queue)
  /\ \E w \in Range(startQueue) :
       /\ tickUpd[w] >= 2
       /\ flushChanged \cap flushDeps[w] = {}
       /\ flushRuns[w] = 1

\* C4 Ordering: of two watchers that were both in the queue when the flush
\* started, no run of the one with the larger id precedes the first run of
\* the one with the smaller id.
C4_Ordering ==
  \A A, B \in Range(startQueue) :
    A < B => \A j \in 1..Len(runLog) :
               runLog[j] = B => \E i \in 1..(j - 1) : runLog[i] = A

C4_Witness ==
  /\ pc = "flush" /\ index >= Len(queue)
  /\ \E i, j \in 1..Len(startQueue) :
       /\ i < j /\ startQueue[i] > startQueue[j]
       /\ \E k, l \in 1..Len(runLog) :
            k < l /\ runLog[k] = startQueue[j] /\ runLog[l] = startQueue[i]

\* C9 Callback arguments: when the flush runs an active, non-deep user
\* watcher over a primitive-valued property, its callback is invoked exactly
\* once, with (the property's value at this run, the value the watcher
\* stored at its previous run), if the two are not ===, and not at all if
\* they are.
C9_CallbackArguments ==
  [][ act'.op.name = "FlushStep" =>
        LET w == act'.op.w
        IN (ws[w].active /\ ws[w].user /\ ~ws[w].deep
              /\ ws[w].getter \in {"a", "b", "c"}
              /\ ~isObject(val[ws[w].getter]) /\ ~isObject(ws[w].value)) =>
             LET new == val[ws[w].getter]
                 old == ws[w].value
                 calls == SelectSeq(act'.cb, LAMBDA e : e[1] = w)
             IN /\ act'.get[w] = 1
                /\ IF StrictEq(new, old) THEN calls = <<>>
                   ELSE calls = << <<w, new, old>> >> ]_vars

\* observe {count: 0}; watch count; count = 1; flush: one call with (1, 0)
C9_Witness ==
  /\ act.op.name = "FlushStep"
  /\ ws[act.op.w].user
  /\ act.cb = << <<act.op.w, Num(1), Num(0)>> >>

\* a queued watcher whose property was changed and restored is run without
\* its callback being called
C9_WitnessRestored ==
  /\ act.op.name = "FlushStep"
  /\ ws[act.op.w].user /\ ws[act.op.w].getter = "a"
  /\ act.get[act.op.w] = 1
  /\ act.cb = <<>>

C5_WitnessObject ==
  /\ act.op.name = "Write"
  /\ act.op.old = Obj(1) /\ act.op.v = Obj(2)
  /\ val[act.op.p] = Obj(2)
  /\ \E w \in Created : act.upd[w] = 1

\* a number written over the same number
C5_WitnessSame ==
  /\ act.op.name = "Write"
  /\ act.op.old = Num(1) /\ act.op.v = Num(1)
  /\ Len(subs[act.op.p]) >= 2
  /\ \A w \in WIds : act.upd[w] = 0

ArrayMethods == {"push", "pop", "shift", "unshift", "splice", "sort", "reverse"}

\* what the native method makes of the array
NativeResult(before, after, method, args) ==
  CASE method = "push" -> after = before \o args
    [] method = "pop" -> after = SubSeq(before, 1, Len(before) - 1)
    [] method = "shift" -> after = SubSeq(before, 2, Len(before))
    [] method = "unshift" -> after = args \o before
    [] method = "reverse" ->
         /\ Len(after) = Len(before)
         /\ \A i \in 1..Len(before) : after[i] = before[Len(before) + 1 - i]
    [] method = "sort" ->
         /\ Len(after) = Len(before)
         /\ \A x \in Range(before) \cup Range(after) : Count(after, x) = Count(before, x)
         /\ \A i, j \in 1..Len(after) : i < j => SortKey(after[i]) <= SortKey(after[j])
    [] method = "splice" ->
         LET st == IF args[1].n < Len(before) THEN args[1].n ELSE Len(before)
             dc == IF args[2].n < Len(before) - st THEN args[2].n ELSE Len(before) - st
             ins == SubSeq(args, 3, Len(args))
         IN /\ Len(after) = Len(before) - dc + Len(ins)
            /\ \A i \in 1..st : after[i] = before[i]
            /\ \A i \in 1..Len(ins) : after[st + i] = ins[i]
            /\ \A i \in (st + dc + 1)..Len(before) : after[i - dc + Len(ins)] = before[i]

InsertedBy(method, args) ==
  CASE method \in {"push", "unshift"} -> Range(args)
    [] method = "splice" -> {args[i] : i \in 3..Len(args)}
    [] OTHER -> {}

C6_WitnessInserted ==
  /\ act.op.name = "splice"
  /\ act.op.args = <<Num(1), Num(1), Obj(1)>>
  /\ Len(arr) >= 2 /\ arr[2] = Obj(1)
  /\ Count(arr, Obj(1)) = 1
  /\ 1 \in ob
  /\ act.notify[DepOfOb(0)] = 1

\* C7 Nested array reactivity: an active watcher whose getter reads
\* data.list is in the subscriber list of the property's Dep and in that of
\* the array Observer's Dep; a push calls its update() once and leaves it
\* pending; when the flush runs a watcher that received one update() in the
\* tick, caused by a push, its getter is invoked once and returns the length
\* of the array, one more than at its previous run; at the end of the loop
\* of that flush its getter has run exactly once.
C7_NestedArray ==
  [][ \A w \in Created :
        (ws[w].getter = "len" /\ ws[w].active) =>
          /\ w \in Range(subs["list"])
          /\ w \in Range(subs[DepOfOb(0)])
          /\ act'.op.name = "push" =>
               (act'.upd[w] = 1 /\ Pending(queue', has', w))
          /\ (act'.op.name = "FlushStep" /\ act'.op.w = w
                /\ tickUpd[w] = 1 /\ tickCause[w] = "push") =>
               /\ act'.get[w] = 1
               /\ ws'[w].value = Num(Len(arr))
               /\ ws'[w].value.n = ws[w].value.n + 1
          /\ (pc = "flush" /\ index >= Len(queue) /\ w \in Range(startQueue)) =>
               flushRuns[w] = 1 ]_vars

\* observe {list: [2, 1]}; watch list.length; push; flush: one run, length 3
C7_Witness ==
  /\ pc = "flush" /\ index >= Len(queue)
  /\ act.op.name = "FlushStep"
  /\ ws[act.op.w].getter = "len"
  /\ tickUpd[act.op.w] = 1 /\ tickCause[act.op.w] = "push"
  /\ flushRuns[act.op.w] = 1
  /\ Len(arr) = 3 /\ ws[act.op.w].value = Num(3)

\* C8 Lazy caching: constructing a lazy watcher does not invoke its getter
\* and leaves it dirty; a read of the computed property invokes the getter
\* exactly once if the watcher is dirty and not at all otherwise, and leaves
\* it clean; a write does not invoke the getter and makes the watcher dirty
\* exactly if it was dirty or the write changed a property its last
\* evaluation read; no step invokes the getter of a clean lazy watcher.
C8_LazyCaching ==
  [][ /\ (act'.op.name = "NewWatcher" /\ ws'[act'.op.w].lazy) =>
           (act'.get[act'.op.w] = 0 /\ ws'[act'.op.w].dirty
              /\ ws'[act'.op.w].value = Undef)
      /\ \A c \in Created :
           ws[c].lazy =>
             /\ (act'.op.name = "ReadComputed" /\ act'.op.w = c) =>
                  /\ act'.get[c] = IF ws[c].dirty THEN 1 ELSE 0
                  /\ ~ws'[c].dirty
             /\ act'.op.name = "Write" =>
                  /\ act'.get[c] = 0
                  /\ ws'[c].dirty = (ws[c].dirty \/ lastRead[c] \cap act'.changed # {})
                  /\ (ws[c].dirty \/ act'.upd[c] >= 1) = ws'[c].dirty
             /\ act'.get[c] <= 1
             /\ act'.get[c] = 1 => ws[c].dirty ]_vars

\* a read that re-evaluates after a write to a dependency: the evaluation
\* before it read another property
C8_Witness ==
  /\ act.op.name = "ReadComputed"
  /\ act.get[act.op.w] = 1
  /\ pruned[act.op.w] # {}
  /\ ~ws[act.op.w].dirty

\* a read of the clean computed property: the getter is not invoked
C8_WitnessCached ==
  /\ act.op.name = "ReadComputed"
  /\ act.get[act.op.w] = 0
  /\ lastRead[act.op.w] # {}

\* the watchers whose callback writes the property their getter reads
SelfWriting == {w \in Created : ws[w].cb = "flipA" /\ ws[w].getter = "a"}

\* C10 (as stated): the flush aborts after exactly MAX_UPDATE_COUNT
\* re-entries of the self-writing watcher into the queue during the flush.
C10_AbortAtThreshold ==
  pc = "flushEnd" => \A w \in SelfWriting : flushEnq[w] = MAX_UPDATE_COUNT

\* C10 Cycle breaker: a flush in which a self-writing watcher has re-entered
\* the queue never ends its loop normally; it aborts, and it does so when
\* the watcher has entered the queue MAX_UPDATE_COUNT + 1 times during the
\* flush and has run MAX_UPDATE_COUNT + 1 times, its counter then exceeding
\* the threshold by one; while the loop runs the counter never exceeds the
\* threshold.
C10_CycleBreaker ==
  \A w \in SelfWriting :
    /\ flushEnq[w] <= MAX_UPDATE_COUNT + 1
    /\ flushRuns[w] <= MAX_UPDATE_COUNT + 1
    /\ (pc = "flush" /\ index >= Len(queue)) => flushEnq[w] = 0
    /\ pc = "flush" => circular[w] <= MAX_UPDATE_COUNT
    /\ pc = "flushEnd" =>
         /\ flushEnq[w] = MAX_UPDATE_COUNT + 1
         /\ flushRuns[w] = MAX_UPDATE_COUNT + 1
         /\ circular[w] = MAX_UPDATE_COUNT + 1

C10_Witness ==
  /\ pc = "flushEnd"
  /\ \E w \in SelfWriting : flushEnq[w] = MAX_UPDATE_COUNT + 1

\* how much of the two lists the loop of updateChildren has still to visit
Measure == (oldEndIdx - oldStartIdx) + (newEndIdx - newStartIdx)

\* the old children that are the same vnode as the new child at position j
SameAsNew(j) ==
  {i \in 1..Len(oldCh0) :
     oldCh0[i].key = newCh[j].key /\ sameVnode(oldCh0[i], newCh[j])}

\* C11 Diff result: every iteration of the loop of updateChildren brings
\* the pointers closer (so the loop ends), and when updateChildren has
\* returned, keys being unique and moves allowed, the child nodes of the
\* parent are the elements of the new children in their order, a new child
\* has the element of an old child exactly if an old child with its key is
\* the same vnode, and has an element created for it otherwise, and every
\* old child that no new child is the same vnode as has been removed.
C11_DiffResult ==
  [][ /\ (phase = "loop" /\ phase' = "loop") => (Measure' < Measure /\ Measure' >= 0 - 2)
      /\ (phase' = "done" /\ ~removeOnly) =>
           /\ dom' = Elms(newCh')
           /\ \A j \in 1..Len(newCh') :
                IF \E i \in 1..Len(oldCh0) :
                     oldCh0[i].key = newCh'[j].key /\ sameVnode(oldCh0[i], newCh'[j])
                THEN /\ \E i \in 1..Len(oldCh0) :
                          /\ oldCh0[i].key = newCh'[j].key
                          /\ newCh'[j].elm = oldCh0[i].elm
                     /\ Count(created', j - 1) = 0
                ELSE /\ newCh'[j].elm = FreshElm(j - 1)
                     /\ Count(created', j - 1) = 1
           /\ \A i \in 1..Len(oldCh0) :
                (\A j \in 1..Len(newCh') : ~sameVnode(oldCh0[i], newCh'[j])) <=>
                  (Count(removed', i - 1) = 1 /\ oldCh0[i].elm \notin Range(dom')) ]_vars

\* a patch that reuses, moves, creates and removes
C11_Witness ==
  /\ phase = "done" /\ ~removeOnly
  /\ dom = Elms(newCh)
  /\ Len(patched) >= 2 /\ moved # <<>> /\ created # <<>> /\ removed # <<>>
  /\ \E j \in 1..Len(newCh) : newCh[j].tag = "span"

\* the new children are the old ones in another order
IsReorder ==
  /\ Len(newCh) = Len(oldCh0)
  /\ \A j \in 1..Len(newCh) : SameAsNew(j) # {}

\* C12 Keyed reorder minimality: when the new children are a permutation
\* of the old ones, all pairs of equal key being the same vnode, and moves
\* are allowed, updateChildren has called neither createElm nor
\* removeVnodes' removal at any moment, every new child ends with the
\* element of the old child of its key, and the child nodes of the parent
\* are the old elements, each once.
C12_ReorderMinimality ==
  (IsReorder /\ ~removeOnly /\ phase \in {"loop", "done"}) =>
    /\ created = <<>> /\ removed = <<>>
    /\ Len(dom) = Len(oldCh0)
    /\ Range(dom) = Range(Elms(oldCh0))
    /\ \A i \in 1..Len(moved) : moved[i] \in Range(Elms(oldCh0))
    /\ phase = "done" =>
         /\ \A j \in 1..Len(newCh) : \A i \in SameAsNew(j) : newCh[j].elm = oldCh0[i].elm
         /\ dom = Elms(newCh)

\* old [1, 2, 3, 4], new [2, 1, 4, 3]: the vnodes are found by their key
C12_WitnessKeyed ==
  /\ phase = "done" /\ ~removeOnly
  /\ [i \in 1..Len(newCh) |-> newCh[i].key] = <<2, 1, 4, 3>>
  /\ IsReorder
  /\ oldKeyToIdx.def
  /\ \E i \in 1..Len(oldCh) : isUndef(oldCh[i])
  /\ dom = <<2, 1, 4, 3>>

\* old [A, B, C], new [C, A, B]: three patches, moves only
C12_Witness ==
  /\ phase = "done" /\ ~removeOnly
  /\ [i \in 1..Len(oldCh0) |-> oldCh0[i].key] = <<1, 2, 3>>
  /\ [i \in 1..Len(newCh) |-> newCh[i].key] = <<3, 1, 2>>
  /\ IsReorder
  /\ Len(patched) = 3 /\ moved # <<>> /\ created = <<>> /\ removed = <<>>
  /\ dom = <<3, 1, 2>>

\* patchVnode was called with two vnodes that have the same children array
SharedChildren ==
  /\ pv.oldVnode.id # pv.vnode.id
  /\ pv.oldVnode.children # 0
  /\ pv.oldVnode.children = pv.vnode.children

\* C13 (as stated): patchVnode(old, vnode) with old === vnode makes no call
\* and changes nothing, and for two distinct vnodes with the identical
\* children array updateChildren is not invoked.
C13_AsStated ==
  pv.done =>
    /\ pv.oldVnode.id = pv.vnode.id => (pv.calls = <<>> /\ pv.patchedVnode = pv.vnode)
    /\ SharedChildren => "updateChildren" \notin Range(pv.calls)

\* C13 Same-reference no-op: patchVnode(old, vnode) with old === vnode makes
\* no call (no DOM operation, no hook) and changes nothing; for two distinct
\* vnodes with the identical children array, updateChildren is not invoked
\* unless vnode has an elm already and an ownerArray is given: the vnode
\* patched is then a clone with a copy of the array, and updateChildren is
\* invoked exactly if the vnode has no text and the fast path for static
\* vnodes is not taken.
C13_SameReference ==
  pv.done =>
    /\ pv.oldVnode.id = pv.vnode.id => (pv.calls = <<>> /\ pv.patchedVnode = pv.vnode)
    /\ SharedChildren =>
         IF pv.vnode.elm # 0 /\ pv.ownerArray
         THEN /\ pv.patchedVnode.id # pv.vnode.id
              /\ pv.patchedVnode.children # pv.oldVnode.children
              /\ ("updateChildren" \in Range(pv.calls)) <=>
                   (pv.vnode.text = "" /\ ~(pv.vnode.isStatic /\ pv.oldVnode.isStatic))
         ELSE /\ pv.patchedVnode.id = pv.vnode.id
              /\ "updateChildren" \notin Range(pv.calls)

\* a vnode in use, patched within its owner array against a vnode that has
\* the same children array: updateChildren is invoked
C13_Witness ==
  /\ pv.done /\ SharedChildren
  /\ pv.vnode.elm # 0 /\ pv.ownerArray
  /\ "updateChildren" \in Range(pv.calls)

\* a vnode with hooks patched against itself
C13_WitnessSame ==
  /\ pv.done /\ pv.oldVnode.id = pv.vnode.id
  /\ pv.vnode.data /\ pv.vnode.children # 0
  /\ pv.calls = <<>>

\* a fresh vnode with the children array of the old one
C13_WitnessShared ==
  /\ pv.done /\ SharedChildren
  /\ pv.vnode.elm = 0 /\ pv.vnode.text = "" /\ ~pv.vnode.isStatic
  /\ pv.vnode.data
  /\ pv.calls = <<"prepatch", "update", "postpatch">>

(***************************************************************************)
(* Errors of watchers during a flush                                       *)
(***************************************************************************)
\* the watchers created with user = true
UserWatchers == {w \in 1..Len(ws) : ws[w].user}

\* the last step ran a getter or a callback that threw
Threw == act.errors > 0 \/ act.threw

\* C14: when a watcher created with user = true throws from its getter or
\* from its callback during a flush, the error is handed to the error
\* handler and does not leave the flush: the loop goes on with the next
\* watcher; when the loop of a flush in which only such watchers threw has
\* ended, every watcher that was pending has been run or was skipped, and
\* after the flush the scheduler state is reset.
C14_UserErrorIsolation ==
  [][/\ (act'.op.name = "FlushStep" /\ act'.op.w \in UserWatchers)
        => /\ ~act'.threw
           /\ pc' \in {"flush", "flushEnd"}
           /\ (ws[act'.op.w].getter = "boom" /\ val["a"] = Num(1))
                => act'.errors = 1
           /\ (ws[act'.op.w].cb = "throw" /\ act'.cb # <<>>) => act'.errors = 1
     /\ (pc' = "flush" /\ index' >= Len(queue'))
        => \A w \in Range(startQueue') \cup {i \in WIds : flushEnq'[i] > 0} :
              w \in Range(runLog')
     /\ act'.op.name = "FlushEnd"
        => queue' = <<>> /\ has' = {} /\ ~waiting' /\ ~flushing' /\ index' = 0
    ]_vars

\* the flush ran the three watchers of the first application although the
\* getter of the first and the callback of the third threw
C14_Witness ==
  /\ pc = "flush" /\ index >= Len(queue)
  /\ runLog = <<1, 2, 3>>
  /\ ws[1].getter = "boom" /\ val["a"] = Num(1)
  /\ ws[3].cb = "throw"
  /\ act.op.name = "FlushStep" /\ act.op.w = 3 /\ act.errors = 1 /\ ~act.threw

\* the flush callbacks handed to nextTick and not yet finished: waiting in
\* callbacks, or in the copy flushCallbacks is working through
FlushesInFlight ==
  Count(callbacks, "flushSchedulerQueue")
    + Count(SubSeq(copies, ci + 1, Len(copies)), "flushSchedulerQueue")

C15_WitnessWrite ==
  /\ waiting /\ ~flushing
  /\ act.op.name = "Write"
  /\ \E w \in WIds : act.enq[w] > 0 /\ Len(queue) >= 2
  /\ act.tick = 0
  /\ FlushesInFlight = 1

\* C16: once no flush is scheduled or running any more, every watcher that
\* was put into the queue has been run or skipped: the queue is empty, no
\* watcher is marked as pending, and waiting and flushing are false, so
\* that the next enqueue schedules a flush; whatever the getters and the
\* callbacks of the watchers do, throwing included.
C16_DrainLiveness ==
  (pc = "idle" /\ ~pending)
    => queue = <<>> /\ has = {} /\ ~waiting /\ ~flushing

(***************************************************************************)
(* The queue during a flush                                                *)
(***************************************************************************)
\* the entries of queue the loop of the flush has not visited yet: those
\* from queue[index] on between two iterations, those after queue[index]
\* once the run of queue[index] has begun (the loop was left by break or by
\* an exception)
NotYetRun ==
  IF ~flushing THEN queue
  ELSE IF pc = "flush" THEN SubSeq(queue, index + 1, Len(queue))
  ELSE SubSeq(queue, index + 2, Len(queue))

\* C17 as stated: no watcher id is in the array queue more than once.
C17_AsStated == \A w \in WIds : Count(queue, w) <= 1

\* C17: a watcher id appears at most once among the entries of the queue
\* the flush has not visited yet, which are exactly the ids marked in has,
\* also when a watcher is put into the queue again during its own run;
\* update() of a watcher that is pending changes neither queue nor has and
\* schedules nothing.
C17_QueueUniqueness ==
  [][/\ \A w \in WIds : Count(NotYetRun', w) <= 1
     /\ has' = Range(NotYetRun')
     /\ act'.op.name = "Write"
          => /\ \A w \in has : act'.enq[w] = 0
             /\ (\A w \in WIds : act'.upd[w] > 0 => w \in has)
                  => queue' = queue /\ has' = has /\ callbacks' = callbacks
     /\ act'.op.name = "FlushStep"
          => \A w \in has \ {act'.op.w} : act'.enq[w] = 0
    ]_vars

\* the callback of the running watcher has put the watcher into the queue
\* again: the array holds it twice, once visited and once not
C17_Witness ==
  /\ pc = "flush"
  /\ act.op.name = "FlushStep"
  /\ act.enq[act.op.w] = 1
  /\ Count(queue, act.op.w) >= 2
  /\ Count(NotYetRun, act.op.w) = 1

\* a write has called update() of a watcher that was pending
C17_WitnessPending ==
  /\ act.op.name = "Write"
  /\ \E w \in has : act.upd[w] > 0 /\ act.enq[w] = 0

Ascending(q) == \A i, j \in 1..Len(q) : i < j => q[i] < q[j]

\* C18 as stated: in one flush no watcher runs after a watcher with a
\* greater id.
C18_AsStated ==
  \A i, j \in 1..Len(runLog) : i < j => runLog[j] >= runLog[i]

\* C18: during a flush the entries not yet visited are in ascending order
\* of id and every iteration runs the pending watcher with the least id; a
\* watcher runs after a watcher with a greater id only if it was put into
\* the queue during the flush.
C18_AscendingExecution ==
  [][/\ flushing' => Ascending(NotYetRun')
     /\ act'.op.name = "FlushStep" => \A w \in has : act'.op.w <= w
     /\ \A i, j \in 1..Len(runLog') :
          (i < j /\ runLog'[j] < runLog'[i]) => flushEnq'[runLog'[j]] > 0
    ]_vars

\* watcher 1 has run after watcher 2, whose callback had put it into the
\* queue again, and before watcher 3
C18_Witness ==
  /\ pc = "flush"
  /\ runLog = <<1, 2, 1, 3>>
  /\ startQueue = <<1, 2, 3>>
  /\ flushEnq[1] = 1

(***************************************************************************)
(* Subscriptions                                                           *)
(***************************************************************************)
\* the Deps whose subscriber list holds watcher w
SubscribedTo(w) == {d \in Deps : w \in Range(subs[d])}

\* C19: when no get() is going on, the Deps that list an active watcher are
\* exactly those its last completed get() read, and each of them lists it
\* once; for getters that returned or threw, and for get() runs nested in
\* one another.
C19_SubscriptionExactness ==
  \A w \in Created :
    ws[w].active =>
      /\ SubscribedTo(w) = lastRead[w]
      /\ \A d \in Deps : Count(subs[d], w) <= 1

\* the callbacks of watcher w the last step invoked
Invoked(a, w) == {i \in 1..Len(a.cb) : a.cb[i][1] = w}

\* C20: teardown() of an active watcher sets active to false and leaves no
\* Dep that lists the watcher; no Dep lists a watcher that is not active,
\* and no write enqueues it, runs its getter or invokes its callback;
\* teardown() of a watcher that is not active changes nothing.
C20_Teardown ==
  [][/\ \A w \in 1..Len(ws') : ~ws'[w].active => SubscribedTo(w)' = {}
     /\ act'.op.name = "Teardown" => ~ws'[act'.op.w].active
     /\ (act'.op.name = "Teardown" /\ ~ws[act'.op.w].active)
          => UNCHANGED <<subs, ws, sched, data, callbacks, pending>>
     /\ \A w \in 1..Len(ws) :
          (~ws[w].active /\ act'.op.name = "Write")
            => act'.enq[w] = 0 /\ act'.get[w] = 0 /\ Invoked(act', w) = {}
    ]_vars

(***************************************************************************)
(* Observers                                                               *)
(***************************************************************************)
\* the Observers created for object n
ObserversOf(h, n) == {i \in 1..Len(h.observers) : h.observers[i].value = n}

\* C21: every object and array has at most one Observer, the one its __ob__
\* names; observe(v) of a value that has an Observer returns that Observer
\* and creates neither an Observer nor a Dep; every reactive property that
\* holds an object has the one Observer of that object as its childOb.
C21_ObserverUniqueness ==
  [][/\ \A n \in HObjs :
          /\ Cardinality(ObserversOf(heap', n)) <= 1
          /\ ObserversOf(heap', n) = {heap'.obOf[n]} \ {0}
     /\ \A i, j \in 1..Len(heap'.observers) :
          heap'.observers[i].dep = heap'.observers[j].dep => i = j
     /\ (hop'.name = "observe" /\ heap.obOf[hop'.target] # 0)
          => /\ heap'.retOb = heap.obOf[hop'.target]
             /\ heap'.nDeps = heap.nDeps
             /\ heap'.observers = heap.observers
     /\ \A n \in HObjs \ {HArray}, k \in HKeys :
          (heap'.props[n][k].dep # 0 /\ isObject(heap'.props[n][k].val))
            => /\ heap'.props[n][k].childOb # 0
               /\ heap'.props[n][k].childOb = heap'.obOf[heap'.props[n][k].val.n]
    ]_vars

\* observe() of the plain object, which two properties of the root object
\* and an element of the array hold, has returned the Observer it had
C21_Witness ==
  /\ hop.name = "observe" /\ hop.target = 2
  /\ heap.props[HRoot]["x"].val = Obj(2)
  /\ heap.props[HRoot]["y"].val = Obj(2)
  /\ heap.items # <<>> /\ heap.items[1] = Obj(2)
  /\ heap.obOf[HArray] # 0
  /\ heap.retOb = heap.props[HRoot]["x"].childOb
  /\ heap.retOb = heap.props[HRoot]["y"].childOb
  /\ heap.retOb # 0

\* the Dep of the Observer of object n
ContainerDep(h, n) == h.observers[h.obOf[n]].dep

\* set() of a key the target has: a plain assignment
SetExisting(h, h2, o) ==
  /\ h2.props[o.target][o.key].has
  /\ h2.props[o.target][o.key].val = o.val
  /\ h2.props[o.target][o.key].dep = h.props[o.target][o.key].dep
  /\ h2.notified = IF h.props[o.target][o.key].dep # 0
                      /\ h.props[o.target][o.key].val # o.val
                   THEN <<h.props[o.target][o.key].dep>>
                   ELSE <<>>

\* set() of a key the target has not
SetNew(h, h2, o) ==
  IF h.obOf[o.target] = 0
  THEN h2.props[o.target][o.key] = Plain(o.val) /\ h2.notified = <<>>
          /\ h2.nDeps = h.nDeps
  ELSE IF h.observers[h.obOf[o.target]].vmCount > 0
  THEN h2.props = h.props /\ h2.notified = <<>> /\ h2.nDeps = h.nDeps
  ELSE /\ h2.props[o.target][o.key].has
       /\ h2.props[o.target][o.key].val = o.val
       /\ h2.props[o.target][o.key].dep = h.nDeps + 1
       /\ h2.notified = <<ContainerDep(h, o.target)>>

\* the array after set(array, index, val)
SetItems(h, o) == original(h.items, "splice", <<Num(o.index), Num(1), o.val>>)

C22_WitnessNative ==
  /\ hop.name = "set" /\ hop.target = HArray
  /\ heap.obOf[HArray] = 0
  /\ heap.items = <<Obj(2)>>
  /\ heap.notified = <<>>

(***************************************************************************)
(* nextTick                                                                *)
(***************************************************************************)
\* C23: the callbacks given to nextTick are invoked in the order of their
\* registration, none twice, and all of them once no flushCallbacks is
\* scheduled or running any more; at most one flushCallbacks is scheduled
\* at a time; a callback registered while flushCallbacks is running goes to
\* callbacks and not into the batch that is running; a callback that throws
\* has its error handed to handleError and the loop goes on with the next
\* callback.
C23_DeferredFIFO ==
  [][/\ cbLog' = [i \in 1..Len(cbLog') |-> i]
     /\ Len(cbLog') <= reg'
     /\ (pc' = "idle" /\ timers' = 0) => Len(cbLog') = reg' /\ callbacks' = <<>>
     /\ timers' <= 1
     /\ pending' => timers' = 1
     /\ callbacks' # <<>> => timers' = 1
     /\ act'.op.name = "CallbackStep"
          => /\ copies' = copies /\ ci' = ci + 1 /\ pc' = "callbacks"
             /\ ~act'.threw
             /\ cbKind[act'.op.w] = "throw" => act'.errors = 1
             /\ reg' > reg => /\ Last(callbacks') = CbName[reg']
                              /\ CbName[reg'] \notin Range(copies)
    ]_vars

\* the first callback threw, the second called nextTick while flushCallbacks
\* was running, and the callback it registered has run in a later batch
C23_Witness ==
  /\ cbKind = <<"throw", "again", "late">>
  /\ cbLog = <<1, 2, 3>>
  /\ copies = <<"cb3">>
  /\ act.op.name = "CallbackStep"

(***************************************************************************)
(* Circular updates of several watchers                                    *)
(***************************************************************************)
\* C24 Any-re-entry cycle detection: once a watcher has entered the queue
\* more than MAX_UPDATE_COUNT times during one flush, whether its own run or
\* the run of another watcher queued it, the loop of the flush has been
\* left.
C24_AnyReentryDetected ==
  \A w \in WIds : flushEnq[w] > MAX_UPDATE_COUNT => pc # "flush"

(***************************************************************************)
(* Insertion into the queue during a flush                                 *)
(***************************************************************************)
\* the watchers queueWatcher has put into the queue in the last step
Inserted == {w \in WIds : act.enq[w] > 0}

\* what an iteration of the loop of the flush that has put watchers into the
\* queue does to the queue
MidFlushInsertion ==
  (act'.op.name = "FlushStep" /\ Inserted' # {})
    => /\ SubSeq(queue', 1, index + 1) = SubSeq(queue, 1, index + 1)
       /\ Len(queue') = Len(queue) + Cardinality(Inserted')
       /\ \A w \in Inserted' : \E k \in (index + 2)..Len(queue') : queue'[k] = w
       /\ Range(SubSeq(queue, index + 2, Len(queue)))
            \subseteq Range(SubSeq(queue', index + 2, Len(queue')))
       /\ Ascending(SubSeq(queue', index + 2, Len(queue')))
       /\ \A w \in Inserted' :
            (pc' = "flush" /\ \A k \in (index + 2)..Len(queue') : w <= queue'[k])
               => queue'[index' + 1] = w

C26_ResetBeforeHooks ==
  [][/\ act'.op.name = "FlushEnd"
          => /\ ~flushing' /\ index' = 0
             /\ has' = {w \in WIds : act'.enq[w] > 0}
             /\ Range(queue') = has' /\ Len(queue') = Cardinality(has')
             /\ waiting' = (has' # {})
             /\ FlushesInFlight' = IF has' # {} THEN 1 ELSE 0
             /\ has' # {} => Last(callbacks') = "flushSchedulerQueue" /\ timers' = 1
             /\ ~act'.threw
     /\ (~flushing' /\ queue' # <<>>) => FlushesInFlight' = 1
     /\ act'.op.name = "FlushStart" => queue' = SortById(queue)
     /\ (act'.op.name = "FlushEnd" /\ pc = "flush") => runLog = queue
    ]_vars

\* the updated hook of the component has written b at the end of a flush,
\* and the watcher of b, enqueued by that write, is run by the next flush
C26_Witness ==
  /\ updated = "copyA"
  /\ act.op.name = "FlushStep"
  /\ act.op.w = 2
  /\ tickCause[2] = "FlushEnd"
  /\ Len(act.cb) = 1

(***************************************************************************)
(* The active target                                                       *)
(***************************************************************************)
\* the Deps the getter of a watcher reads, itself or through the computed
\* property it reads
ReadsOf(g) ==
  CASE g = "a" -> {"a"}
    [] g = "boom" -> {"a"}
    [] g = "bump" -> {"a", "b"}
    [] g = "branch" -> {"a", "b", "c"}
    [] g = "comp" -> {"a", "b", "c"}
    [] OTHER -> Deps

\* C27 Active-target discipline: no step leaves a watcher on the target
\* stack, whether the getters it ran returned or threw; no watcher is ever
\* subscribed to a Dep that only the getter of another watcher reads; a
\* getter goes on collecting for its own watcher after an evaluation nested
\* in it has returned: the watcher whose getter has run a sync watcher by
\* its write is subscribed to what it read after the write, and the render
\* that has evaluated a computed property holds the value of that property
\* and the computed watcher holds what its own getter read.
C27_ActiveTarget ==
  [][/\ targetStack' = <<>>
     /\ \A w \in 1..Len(ws') :
          /\ SubscribedTo(w)' \subseteq ReadsOf(ws'[w].getter)
          /\ lastRead'[w] \subseteq ReadsOf(ws'[w].getter)
     /\ \A w \in 1..Len(ws') :
          (ws'[w].getter = "bump" /\ act'.get[w] = 1 /\ ~act'.threw)
             => /\ "b" \in SubscribedTo(w)'
                /\ lastRead'[w] = {"a", "b"}
     /\ \A w \in 1..Len(ws') :
          (ws'[w].getter = "a" /\ act'.get[w] > 0) => lastRead'[w] = {"a"}
     /\ \A w \in 1..Len(ws') :
          (ws'[w].getter = "branch" /\ act'.get[w] = 1 /\ ~act'.threw)
             => lastRead'[w] = {"c", IF val'["c"] = Num(0) THEN "a" ELSE "b"}
    ]_vars

\* the getter of watcher 2 has written a, the sync watcher 1 has run inside
\* that write, and watcher 2 has then read b
C27_Witness ==
  /\ Len(ws) = 2
  /\ ws[2].getter = "bump"
  /\ act.op.name = "NewWatcher"
  /\ act.get = <<1, 1, 0, 0>>
  /\ subs["b"] = <<2>>
  /\ targetStack = <<>>

\* the getter of the computed property has thrown inside the getter of the
\* render, and the target stack is empty
C27_WitnessThrow ==
  /\ Len(ws) = 2
  /\ ws[1].getter = "boom"
  /\ act.get = <<1, 1, 0, 0>>
  /\ act.threw
  /\ targetStack = <<>>

(***************************************************************************)
(* Dependencies through a computed property                                *)
(***************************************************************************)
\* the watchers whose getter reads the computed property
ComputedReaders == {w \in Created : ws[w].getter \in {"comp", "aComp"}}

\* what function () { return this.c === 0 ? this.a : this.b } returns
BranchValue(v) == IF v["c"] = Num(0) THEN v["a"] ELSE v["b"]

\* C28 Transitive dependencies through computed values: a watcher R that
\* reads the computed property while it is the active target is subscribed,
\* when its get() has completed, to every Dep the computed watcher C holds;
\* as long as C holds the Deps it held at that read, a write that changes
\* the property of one of them sets C.dirty and calls R.update(); and a run
\* of R leaves in R.value the value recomputed from the data as they are.
C28_TransitiveDeps ==
  [][\A R \in ComputedReaders :
       /\ (act'.get[R] > 0 /\ ~act'.threw)
            => Range(ws'[ComputedWatcher(Cur)].deps) \subseteq SubscribedTo(R)'
       /\ (/\ act'.op.name = "Write"
           /\ Range(ws[ComputedWatcher(Cur)].deps) \subseteq lastRead[R]
           /\ act'.changed \cap Range(ws[ComputedWatcher(Cur)].deps) # {})
            => /\ ws'[ComputedWatcher(Cur)].dirty \/ act'.get[ComputedWatcher(Cur)] > 0
               /\ act'.upd[R] > 0
       /\ (act'.get[R] > 0 /\ ~act'.threw /\ R \in Created)
            => ws'[R].value = BranchValue(val')
    ]_vars

(***************************************************************************)
(* update()                                                                *)
(***************************************************************************)
\* C29 update() dispatch: a step that calls update() on a lazy watcher
\* leaves it dirty, does not invoke its getter and does not enqueue it; a
\* step that calls update() on a sync watcher has, when it ends, run the
\* watcher: its getter once for every update(), its value that of the data
\* as they are and, the value having changed, its callback with the new
\* and the old value; a step that calls update() on any other watcher
\* leaves it in the queue, and the getter of such a watcher is invoked only
\* by its construction and by the iteration of the flush that visits it.
C29_UpdateDispatch ==
  [][\A w \in Created :
       /\ (ws[w].lazy /\ act'.upd[w] > 0)
            => /\ ws'[w].dirty
               /\ act'.get[w] = 0
               /\ act'.enq[w] = 0 /\ w \notin has' /\ w \notin Range(queue')
               /\ ws'[w].value = ws[w].value
       /\ (~ws[w].lazy /\ ws[w].sync)
            => /\ act'.get[w] = act'.upd[w]
               /\ act'.enq[w] = 0 /\ w \notin has'
               /\ act'.upd[w] > 0
                    => /\ ws'[w].value = val'["a"]
                       /\ act'.op.name = "Write"
                            => act'.cb = << <<w, val'["a"], ws[w].value>> >>
       /\ (~ws[w].lazy /\ ~ws[w].sync)
            => /\ act'.upd[w] > 0 => w \in has' /\ w \in Range(queue')
               /\ act'.get[w] > 0
                    => act'.op.name = "FlushStep" /\ act'.op.w = w /\ act'.get[w] = 1
    ]_vars

\* one write has called update() on the lazy, on the queued and on the
\* sync watcher
C29_Witness ==
  /\ act.op.name = "Write"
  /\ Len(ws) = 3
  /\ ws[1].lazy /\ ws[3].sync
  /\ act.upd = <<1, 1, 1, 0>>
  /\ act.get = <<0, 0, 1, 0>>
  /\ ws[1].dirty
  /\ queue = <<2>>

(***************************************************************************)
(* Cancellation of a pending watcher                                       *)
(***************************************************************************)
\* C30 Cancellation of a pending watcher: teardown() of a watcher that is
\* pending leaves the queue and has as they are; the iteration of the flush
\* that visits a watcher that is not active invokes neither its getter nor
\* its callback, changes no watcher, no data and no subscriber list, and
\* moves the cursor to the next entry; a flush whose loop ends has visited
\* every entry of its queue.
C30_PendingCancelled ==
  [][/\ act'.op.name = "Teardown" => queue' = queue /\ has' = has
     /\ (act'.op.name = "FlushStep" /\ ~ws[act'.op.w].active)
          => /\ act'.get[act'.op.w] = 0
             /\ act'.cb = <<>>
             /\ ~act'.threw
             /\ UNCHANGED <<ws, data, subs, queue>>
             /\ pc' = "flush" /\ index' = index + 1
     /\ (act'.op.name = "FlushEnd" /\ pc = "flush") => runLog = queue
    ]_vars

\* watcher 1 was torn down while it was pending; the flush has visited it
\* without running it and has then run watcher 2
C30_Witness ==
  /\ act.op.name = "FlushStep"
  /\ act.op.w = 2
  /\ queue = <<1, 2>>
  /\ runLog = <<1, 2>>
  /\ startQueue = <<1, 2>>
  /\ ~ws[1].active
  /\ ws[1].getter = "a"
  /\ flushRuns = <<0, 1, 0, 0>>
  /\ act.get[2] = 1

(***************************************************************************)
(* sameVnode                                                               *)
(***************************************************************************)
\* the type attribute of a vnode, "absent" when it has none
TypeAttr(a) ==
  IF a.data /\ a.attrs \notin {"undef", "notype"} THEN a.attrs ELSE "absent"

\* an unresolved async placeholder with no error
Unresolved(a) == a.isAsyncPlaceholder /\ ~FactoryError(a.asyncFactory)

\* C31 sameVnode definition: sameVnode(a, b) is true exactly when the keys
\* and the async factories are equal and either the tags are equal, both or
\* neither is a comment, both or neither has data and, for <input>, the
\* type attributes are identical or both text-like, or both are unresolved
\* async placeholders with no error.
C31_SameVnode ==
  same.done =>
    (same.ret <=>
       /\ nodeA.key = nodeB.key
       /\ nodeA.asyncFactory = nodeB.asyncFactory
       /\ \/ /\ nodeA.tag = nodeB.tag
             /\ nodeA.isComment = nodeB.isComment
             /\ nodeA.data = nodeB.data
             /\ nodeA.tag = "input"
                  => \/ TypeAttr(nodeA) = TypeAttr(nodeB)
                     \/ isTextInputType(TypeAttr(nodeA)) /\ isTextInputType(TypeAttr(nodeB))
          \/ Unresolved(nodeA) /\ Unresolved(nodeB))

\* C31, for two <input> vnodes that are no async placeholders: they are the
\* same vnode exactly when key, async factory and presence of data are equal
\* and the type attributes are identical or both text-like.
C31_SameInput ==
  (/\ same.done
   /\ nodeA.tag = "input" /\ nodeB.tag = "input"
   /\ ~nodeA.isAsyncPlaceholder /\ ~nodeB.isAsyncPlaceholder)
    => (same.ret <=>
          /\ nodeA.key = nodeB.key
          /\ nodeA.asyncFactory = nodeB.asyncFactory
          /\ nodeA.data = nodeB.data
          /\ \/ TypeAttr(nodeA) = TypeAttr(nodeB)
             \/ isTextInputType(TypeAttr(nodeA)) /\ isTextInputType(TypeAttr(nodeB)))

\* C32: counted removal.  The element of a removed vnode with data is a
\* child of its parent exactly as long as rm has been called fewer times
\* than the listener count (the modules' remove hooks plus one, for each
\* vnode of the component-root chain); it is taken out once, when the count
\* is reached, its siblings stay, and later calls of rm take nothing out.
C32_CountedRemoval ==
  rm.made =>
    /\ rm.detached <= 1
    /\ rm.detached = 1 <=> rm.calls >= rm.due
    /\ rm.dom = (IF rm.calls < rm.due THEN RmSiblings ELSE removeChild(RmSiblings, RmElm))

\* the longest chain, some hooks having called rm later, the element taken
\* out and rm called once more
C32_Witness ==
  /\ rm.made /\ rm.due = MaxChain * (MaxMods + 1) /\ rm.calls > rm.due
  /\ rm.later = 0 /\ rm.detached = 1 /\ rm.dom = <<6, 8>>

\* the element still in place one call before the count
C32_WitnessAttached ==
  /\ rm.made /\ rm.due = MaxChain * (MaxMods + 1) /\ rm.calls = rm.due - 1
  /\ rm.later = 1 /\ rm.dom = RmSiblings

\* the key of operation o is no own property of its target
o_NotOwn(h, o) ==
  IF o.target = HArray THEN o.index >= Len(h.items)
  ELSE ~h.props[o.target][o.key].has

\* the heap is as it was and no Dep has been notified
HeapKept(h, h2) ==
  /\ h2.props = h.props /\ h2.items = h.items /\ h2.observers = h.observers
  /\ h2.obOf = h.obOf /\ h2.nDeps = h.nDeps /\ h2.notified = <<>>

\* set() of a new key of a Vue instance or of root data, and del() of any key
\* of one, change nothing and notify no Dep
RootKept(h, h2, o) ==
  /\ (o.name = "set" /\ o.target # HArray /\ ~h.props[o.target][o.key].has
        /\ isRoot(h, o.target)) => HeapKept(h, h2)
  /\ (o.name = "del" /\ o.target # HArray /\ isRoot(h, o.target)) => HeapKept(h, h2)

\* C33 as stated: set() of a new key and del() on a Vue instance or on root
\* data change nothing and notify no Dep, and so does del() of a key that is
\* no own property of its target, an index past the end of an array
\* included.
C33_AsStated ==
  [][/\ RootKept(heap, heap', hop')
     /\ (hop'.name = "del" /\ o_NotOwn(heap, hop')) => HeapKept(heap, heap')
    ]_vars

\* C33: set() of a new key and del() on a Vue instance or on root data change
\* nothing and notify no Dep; del() of a key that is no own property of an
\* object changes nothing and notifies no Dep; del() of an index of an array
\* is splice(index, 1), which notifies the Dep of the array's Observer, if
\* it has one, also when the index is past the end and nothing is removed.
C33_RootProtection ==
  [][/\ RootKept(heap, heap', hop')
     /\ (hop'.name = "del" /\ hop'.target # HArray /\ o_NotOwn(heap, hop'))
          => HeapKept(heap, heap')
     /\ (hop'.name = "del" /\ hop'.target = HArray)
          => /\ heap'.items = original(heap.items, "splice", <<Num(hop'.index), Num(1)>>)
             /\ heap'.props = heap.props
             /\ heap'.notified = IF heap.obOf[HArray] # 0
                                  THEN <<ContainerDep(heap, HArray)>>
                                  ELSE <<>>
    ]_vars

\* del() of a key the root data object has was refused
C33_Witness ==
  /\ hop.name = "del" /\ hop.target = HRoot /\ hop.key = "x"
  /\ heap.props[HRoot]["x"].has /\ ~heap.props[HRoot]["y"].has
  /\ heap.observers[heap.obOf[HRoot]].vmCount > 0
  /\ heap.notified = <<>>

\* set() of a new key of a Vue instance was refused
C33_WitnessVm ==
  /\ hop.name = "set" /\ hop.target = 2 /\ hop.key = "y"
  /\ 2 \in heap.isVue /\ ~heap.props[2]["y"].has /\ heap.obOf[2] = 0

\* del() of an index past the end of the observed array has notified
C33_WitnessPastEnd ==
  /\ hop.name = "del" /\ hop.target = HArray /\ hop.index >= Len(heap.items)
  /\ heap.obOf[HArray] # 0
  /\ heap.notified = <<ContainerDep(heap, HArray)>>

\* the positions of queue whose run has not begun: all of them outside a
\* flush, those from the cursor on between two iterations of the loop,
\* those after the cursor once the run of the watcher at the cursor has
\* begun (the loop was left by break or by an exception)
PendingPositions ==
  IF ~flushing THEN 1..Len(queue)
  ELSE IF pc = "flush" THEN (index + 1)..Len(queue)
  ELSE (index + 2)..Len(queue)

\* the positions at or after the cursor during a flush, all outside one
CursorPositions ==
  IF ~flushing THEN 1..Len(queue) ELSE (index + 1)..Len(queue)

\* C34 as stated: has[id] is set if and only if the watcher is at a position
\* of queue at or after the cursor during a flush, at any position outside
\* a flush, and no id is at two such positions.
C34_AsStated ==
  /\ \A w \in WIds : w \in has <=> \E i \in CursorPositions : queue[i] = w
  /\ \A i, j \in CursorPositions : queue[i] = queue[j] => i = j

\* C34: has[id] is set if and only if the watcher is at a position of queue
\* whose run has not begun: any position outside a flush, a position at or
\* after the cursor between two iterations of the loop, a position after the
\* cursor once the run of the watcher at the cursor has begun, also after an
\* exception has left the flush; no id is at two such positions.
C34_PresenceSet ==
  /\ \A w \in WIds : w \in has <=> \E i \in PendingPositions : queue[i] = w
  /\ \A i, j \in PendingPositions : queue[i] = queue[j] => i = j

\* after the render watcher 2 threw at the cursor, a write has put watchers
\* 1 and 2 into the stale queue again: each is at a position whose run has
\* begun and pending behind the cursor
C34_Witness ==
  /\ flushing /\ pc = "idle" /\ index = 1
  /\ queue = <<1, 2, 1, 2>> /\ has = {1, 2}
  /\ act.op.name = "Write" /\ act.enq[1] = 1 /\ act.enq[2] = 1

\* flushing is true and flushSchedulerQueue is not running
Stuck == flushing /\ pc \notin {"flush", "flushEnd"}

\* C35: when a watcher made without user = true throws from its getter or
\* from its callback in a flush, the exception leaves flushSchedulerQueue
\* before resetSchedulerState: flushing and waiting stay true, index stays
\* on the watcher and the queue and the ids in has behind it stay; from then
\* on flushing and waiting are true for good, every watcher whose update()
\* is called and that is not in has is spliced into the queue behind index,
\* no flush is handed to nextTick and no watcher is run by the scheduler.
C35_StuckScheduler ==
  [][/\ (/\ act'.op.name = "FlushStep"
         /\ ~ws[act'.op.w].user /\ ws[act'.op.w].active
         /\ \/ ws[act'.op.w].getter = "boom" /\ val["a"] = Num(1)
            \/ ws[act'.op.w].cb = "throw" /\ act'.cb # <<>>)
        => /\ act'.threw /\ act'.errors = 0
           /\ Stuck'
           /\ waiting' /\ index' = index
           /\ queue' = queue /\ has' = has \ {act'.op.w}
     /\ Stuck
        => /\ Stuck' /\ waiting' /\ index' = index
           /\ act'.op.name \notin {"FlushStep", "FlushEnd", "FlushStart"}
           /\ act'.tick = 0 /\ FlushesInFlight' = 0
           /\ SubSeq(queue', 1, index + 1) = SubSeq(queue, 1, index + 1)
           /\ Len(queue') >= Len(queue)
           /\ has \subseteq has'
           /\ \A w \in WIds :
                (act'.upd[w] > 0 /\ w \notin has /\ ~ws[w].lazy /\ ~ws[w].sync)
                  => /\ w \in has'
                     /\ \E i \in (index + 2)..Len(queue') : queue'[i] = w
                     /\ Len(queue') > Len(queue)
    ]_vars

\* the callback of the watcher made without user = true has thrown in the
\* flush, and a later write has put watchers into the stale queue
C35_Witness ==
  /\ Stuck /\ waiting /\ pc = "idle" /\ ~pending
  /\ ws[2].cb = "throw" /\ ~ws[2].user
  /\ index = 1 /\ Len(queue) > 2
  /\ act.op.name = "Write" /\ act.enq[2] = 1 /\ act.tick = 0

\* the getter of the render watcher has thrown in the flush
C35_WitnessGetter ==
  /\ Stuck /\ waiting /\ act.op.name = "FlushStep" /\ act.threw
  /\ ws[act.op.w].getter = "boom" /\ ~ws[act.op.w].user
  /\ Len(queue) > index + 1

\* what the getter g of a computed property returns on the data v
GetterValue(g, v) ==
  CASE g = "branch" -> BranchValue(v)
    [] g = "boom" -> v["a"]
    [] OTHER -> Undef

\* the lazy watcher w holds the value its getter would return now
CacheFresh(w) == ws[w].value = GetterValue(ws[w].getter, val)

\* C36 as stated: between the writes, every lazy watcher with dirty = false
\* holds the value its getter would return on the data as they are.
C36_AsStated ==
  \A w \in 1..Len(ws) : (ws[w].lazy /\ ~ws[w].dirty) => CacheFresh(w)

\* C36: between the writes, every lazy watcher that has not been torn down
\* and has dirty = false holds the value its getter would return on the
\* data as they are; a write that changes a property its last evaluation
\* read sets dirty.
C36_CacheCoherence ==
  [][/\ \A w \in 1..Len(ws') :
          (ws'[w].lazy /\ ws'[w].active /\ ~ws'[w].dirty)
            => ws'[w].value = GetterValue(ws'[w].getter, val')
     /\ \A w \in 1..Len(ws) :
          (/\ act'.op.name = "Write" /\ ws[w].lazy /\ ws[w].active
           /\ val'[act'.op.p] # val[act'.op.p]
           /\ act'.op.p \in lastRead[w])
            => ws'[w].dirty
    ]_vars

\* the computed property was evaluated with c = 0, a write to a has set
\* dirty, a read has evaluated it again and the cache holds the new a
C36_Witness ==
  /\ ws # <<>> /\ ws[1].lazy /\ ws[1].active /\ ~ws[1].dirty
  /\ ws[1].getter = "branch"
  /\ val["a"] = Num(1) /\ val["c"] = Num(0) /\ ws[1].value = Num(1)
  /\ act.op.name = "ReadComputed" /\ act.get[1] = 1

\* the watcher of the computed property was torn down and a was written
C36_WitnessTornDown ==
  /\ ws # <<>> /\ ws[1].lazy /\ ~ws[1].active /\ ~ws[1].dirty
  /\ ws[1].value # GetterValue(ws[1].getter, val)

\* the watcher whose get() the action has run and in which a hook, a data
\* function or an immediate callback was invoked
Mounting(w) ==
  /\ w \in 1..Len(ws') /\ ws'[w].getter \in HookGetters /\ act'.get[w] > 0

\* the reads of the handler have added no Dep to the watcher w and the
\* reads of its getter before and after the handler have added theirs; the
\* active target is what it was
UntrackedIn(w) ==
  /\ Range(ws'[w].deps) = {"a", "c"}
  /\ SubscribedTo(w)' = {"a", "c"}
  /\ \A d \in Deps \ {"a", "c"} : w \notin Range(subs'[d])
  /\ targetStack' = targetStack
  /\ ~act'.threw
  /\ act'.errors = (IF ws'[w].getter = "dataThrow" THEN 1 ELSE 0)

\* C37 as stated: the reads made in a hook, a data function or an immediate
\* callback add no Dep to any watcher.
C37_AsStated ==
  [][\A w \in WIds : Mounting(w)
        => /\ UntrackedIn(w)
           /\ \A u \in 1..Len(ws) : u # w => ws'[u].deps = ws[u].deps
    ]_vars

\* C37: a hook, a data function and an immediate callback that are invoked
\* in the get() of a watcher run with no active target: their reads add no
\* Dep to that watcher, the reads of its getter after their return add
\* theirs, and an error of the handler goes to handleError; a watcher whose
\* own get() begins inside the handler, such as the watcher of a computed
\* property that is dirty when the handler reads it, collects the Deps of
\* its reads, and no other watcher gets a Dep.
C37_UntrackedHooks ==
  [][\A w \in WIds : Mounting(w)
        => /\ UntrackedIn(w)
           /\ \A u \in 1..Len(ws) :
                (u # w /\ act'.get[u] = 0) => ws'[u].deps = ws[u].deps
           /\ \A u \in 1..Len(ws) :
                (u # w /\ act'.get[u] > 0)
                  => /\ ws[u].lazy /\ ws[u].dirty
                     /\ HandlerOf(ws'[w].getter) = "readComp"
                     /\ Range(ws'[u].deps) = lastRead'[u]
    ]_vars

\* the render ran again in a flush; its mounted hook read the computed
\* property, which was dirty and was evaluated inside the hook
C37_Witness ==
  /\ act.op.name = "FlushStep" /\ act.op.w = 2
  /\ ws[2].getter = "hookComp" /\ act.get[2] = 1 /\ act.get[1] = 1
  /\ Range(ws[2].deps) = {"a", "c"}
  /\ Range(ws[1].deps) = {"c", "b"} /\ ~ws[1].dirty

\* the data function read b and threw inside the render
C37_WitnessData ==
  /\ act.op.name = "FlushStep" /\ act.op.w = 2
  /\ ws[2].getter = "dataThrow" /\ act.get[2] = 1 /\ act.errors = 1
  /\ Range(ws[2].deps) = {"a", "c"} /\ targetStack = <<>>

\* the calls of patchVnode with the old child at index oi, with the new
\* child at index ni
PatchesOfOld(ps, oi) == {k \in 1..Len(ps) : ps[k][1] = oi}
PatchesOfNew(ps, ni) == {k \in 1..Len(ps) : ps[k][2] = ni}

\* C38: in updateChildren with keys unique within each list, every old
\* child is passed to patchVnode at most once and with a new child of its
\* key, every new child is patched against one old child or created, never
\* both and never twice, and exactly one of the two once updateChildren has
\* returned; no two new children have the same element; an old child that
\* was patched is never removed, and one whose slot was set to undefined
\* after a keyed match is not patched, moved or removed afterwards.
C38_OneToOne ==
  [][/\ \A oi \in 0..(Len(oldCh0) - 1) :
          /\ Cardinality(PatchesOfOld(patched', oi)) <= 1
          /\ PatchesOfOld(patched', oi) # {} => Count(removed', oi) = 0
     /\ \A k \in 1..Len(patched') :
          oldCh0[patched'[k][1] + 1].key = newCh'[patched'[k][2] + 1].key
     /\ \A ni \in 0..(Len(newCh') - 1) :
          /\ Cardinality(PatchesOfNew(patched', ni)) + Count(created', ni) <= 1
          /\ phase' = "done"
               => Cardinality(PatchesOfNew(patched', ni)) + Count(created', ni) = 1
     /\ \A j1, j2 \in 1..Len(newCh') :
          (j1 # j2 /\ newCh'[j1].elm # 0) => newCh'[j1].elm # newCh'[j2].elm
     /\ \A i \in 1..Len(oldCh) :
          isUndef(oldCh[i])
            => /\ isUndef(oldCh'[i])
               /\ PatchesOfOld(patched', i - 1) = PatchesOfOld(patched, i - 1)
               /\ Count(moved', oldCh0[i].elm) = Count(moved, oldCh0[i].elm)
               /\ Count(removed', i - 1) = 0
               /\ oldCh0[i].elm \in Range(dom')
    ]_vars

\* old [1, 2, 3, 4], new [3, 5, 1]: the old child of key 3 was found by its
\* key and its slot set to undefined, key 5 was created, keys 2 and 4 were
\* removed
C38_Witness ==
  /\ phase = "done" /\ ~removeOnly
  /\ [i \in 1..Len(oldCh0) |-> oldCh0[i].key] = <<1, 2, 3, 4>>
  /\ [i \in 1..Len(newCh) |-> newCh[i].key] = <<3, 5, 1>>
  /\ \A j \in 1..Len(newCh) : newCh[j].tag = "div"
  /\ isUndef(oldCh[3]) /\ <<2, 0>> \in Range(patched)
  /\ Len(patched) = 2 /\ Len(created) = 1 /\ Len(removed) = 2
  /\ dom = <<3, FreshElm(1), 1>>

\* run() of watcher w is called in the action while a is 1
ThrowingRun(w) ==
  /\ w \in 1..Len(ws) /\ ws[w].getter = "boomB" /\ ws[w].active
  /\ act'.op.name \in {"FlushStep", "Write"} /\ act'.get[w] = 1
  /\ val'["a"] = Num(1)

\* C39: when the getter of a user watcher throws in run(), the error is
\* handed to handleError and leaves neither get() nor run(); the value of
\* the watcher is undefined afterwards; the callback is invoked, once and
\* with (undefined, previous value), exactly if the previous value was not
\* undefined or the watcher is deep; and the watcher is subscribed to the
\* Deps its getter read before it threw and to no other.
C39_ThrowingGetter ==
  [][\A w \in WIds : ThrowingRun(w)
        => /\ act'.errors = 1 /\ ~act'.threw
           /\ ws'[w].value = Undef
           /\ act'.cb = (IF ws[w].value # Undef \/ ws[w].deep
                         THEN << <<w, Undef, ws[w].value>> >>
                         ELSE <<>>)
           /\ Range(ws'[w].deps) = {"a"}
           /\ SubscribedTo(w)' = {"a"}
           /\ lastRead'[w] = {"a"}
    ]_vars

\* the getter threw in a flush: the callback got (undefined, 0) and the
\* watcher, which was subscribed to a and b, is subscribed to a only
C39_Witness ==
  /\ act.op.name = "FlushStep" /\ act.op.w = 1
  /\ ws[1].getter = "boomB" /\ ~ws[1].deep
  /\ act.errors = 1 /\ act.cb = << <<1, Undef, Num(0)>> >>
  /\ ws[1].value = Undef
  /\ SubscribedTo(1) = {"a"} /\ pruned[1] = {"b"}

\* the getter of the deep watcher threw again: the callback got
\* (undefined, undefined)
C39_WitnessDeep ==
  /\ act.op.name = "FlushStep" /\ act.op.w = 1
  /\ ws[1].deep /\ act.errors = 1
  /\ act.cb = << <<1, Undef, Undef>> >>

\* the getter threw again, the previous value being undefined: no callback
C39_WitnessSilent ==
  /\ act.op.name = "FlushStep" /\ act.op.w = 1
  /\ ws[1].getter = "boomB" /\ ~ws[1].deep /\ act.errors = 1
  /\ act.cb = <<>> /\ ws[1].value = Undef

====
